---- MODULE Spec2Model ----
(***************************************************************************)
(* A state-machine model of valentotbot: the callback-token service, the   *)
(* domain services (send, reply, reveal, create link), the dialog-state    *)
(* store and the Telegram handlers that drive them.                        *)
(*                                                                         *)
(* Conventions                                                             *)
(*   Optional[X] is a set holding at most one X: {} is None.               *)
(*   A table whose rows are never deleted is a sequence; a row's id is its *)
(*   index (BigInteger autoincrement primary keys start at 1).             *)
(*   callback_tokens loses rows, so it is a set of rows and the id comes   *)
(*   from token_id_seq.                                                    *)
(*   A token string ("cb_" + 16 random alphanumerics) is coded by a number *)
(*   of 1..NumTokenStrings; a slug by a number of 1..NumSlugs.             *)
(*   Users.id is identified with the Telegram id of the user.              *)
(***************************************************************************)
EXTENDS Integers, Sequences, FiniteSets, TLC

\* ------------------------------------------------------------- bounds
MaxUsers == 2
NumTokenStrings == 2
NumSlugs == 2
MaxTokenId == 2
MaxTicks == 2
MaxMessages == 2
MaxThreadMessages == 2
\* The bot as a whole: tokens issued, messages stored, clock ticks
MaxSysTokens == 3
MaxSysMessages == 1
MaxSysTicks == 1
\* The callback buttons: clock ticks, so that a button outlives its token
MaxCbTicks == 1
\* The message list: messages in the inbox, page size
MaxPageMessages == 2
MaxPageSize == 2

\* -------------------------------------------------- program constants
TtlDefault == 3600
TtlPaginate == 1800
TtlNotify == 86400
PageLimit == 5
MaxTextLen == 2000

TickSeconds == TtlPaginate
MaxTime == MaxTicks * TickSeconds
MaxSysTime == MaxSysTicks * TickSeconds

Users == 1..MaxUsers
TokenStrings == 1..NumTokenStrings
Slugs == 1..NumSlugs
\* Two callers: the claims about concurrency are about two concurrent calls
Procs == {1, 2}

\* domain/value_objects.py: the enum the services and handlers use
CallbackTokenType ==
    {"OPEN_MESSAGE", "REPLY", "REVEAL_AUTHOR", "PAGINATE", "LINK_TOGGLE", "LINK_CREATE"}
\* infrastructure/db/models.py: the enum of the callback_tokens.type column
DbCallbackTokenType == {"OPEN_MESSAGE", "REPLY", "REVEAL_AUTHOR", "PAGINATE"}
MessageStatus == {"NEW", "DELIVERED", "READ", "BLOCKED"}

VARIABLES
    now,              \* the clock, seconds
    users,            \* users table: the ids of the registered users
    links,            \* links table
    messages,         \* messages table
    threads,          \* threads table
    thread_messages,  \* thread_messages table
    dialog_states,    \* dialog_states table: user id -> Optional row
    callback_tokens,  \* callback_tokens table
    token_id_seq,     \* callback_tokens.id sequence
    procs,            \* the concurrent callers of the token service
    calls,            \* the concurrent callers of the reply and link services, and
                      \* the workers handling text events
    issued,           \* history: every row ever inserted into callback_tokens
    redeemed,         \* history: ids of the rows a one-time consume returned
    deleted,          \* history: token strings of the rows ever deleted
    last              \* what the last completed operation answered

dbVars == <<users, links, messages, threads, thread_messages, dialog_states>>
tokVars == <<callback_tokens, token_id_seq>>
histVars == <<issued, redeemed, deleted>>
vars == <<now, users, links, messages, threads, thread_messages, dialog_states,
          callback_tokens, token_id_seq, procs, calls, issued, redeemed, deleted,
          last>>

\* A caller of ReplyToMessageService.execute or CreateLinkService.execute: where
\* it stands (pc), its arguments, what it has read so far, and how it ended
IdleCall ==
    [pc |-> "idle", op |-> "", message_id |-> 0, from_user_id |-> 0, text |-> "",
     message |-> {}, thread |-> {}, owner_user_id |-> 0, label |-> "", prompt |-> {},
     slug |-> 0, err |-> "", ret |-> {}]

TheOne(S) == CHOOSE x \in S : TRUE

\* ================================================== callback token store

\* extra_data of a token: the keys any handler writes, each Optional
NoExtra ==
    [status |-> {}, link_slug |-> {}, from_ts |-> {}, limit |-> {}, offset |-> {},
     link_id |-> {}]

\* SqlAlchemyCallbackTokenRepository.get: SELECT ... WHERE token = :token
TokenRepoGet(store, token) == {r \in store : r.token = token}

\* SqlAlchemyCallbackTokenRepository.delete: DELETE ... WHERE token = :token
TokenRepoDelete(store, token) == {r \in store : r.token # token}

\* Mutant: callback_tokens.token carries no unique index
TokenUniqueViolated_NoIndex(store, token) == FALSE

\* The unique index on callback_tokens.token: does an INSERT of token violate it
TokenUniqueViolated(store, token) == \E r \in store : r.token = token

\* SqlAlchemyCallbackTokenRepository.create: INSERT and commit. The type column
\* is the four-label enum callback_token_type, the token column is unique.
TokenRepoCreate(store, seq, token, type, entity_id, extra_data, expires_at) ==
    IF type \notin DbCallbackTokenType
    THEN [err |-> "DBAPIError", store |-> store, seq |-> seq, record |-> {}]
    ELSE IF TokenUniqueViolated(store, token)
    THEN [err |-> "IntegrityError", store |-> store, seq |-> seq, record |-> {}]
    ELSE LET rec == [id |-> seq + 1, token |-> token, type |-> type,
                     entity_id |-> entity_id, extra_data |-> extra_data,
                     expires_at |-> expires_at]
         IN [err |-> "", store |-> store \cup {rec}, seq |-> seq + 1, record |-> {rec}]

\* Mutant: a token is expired from its expiry instant on
IsExpired_AtExpiry(record, t) == \E e \in record.expires_at : e <= t

\* consume_token line 39: record.expires_at is not None and record.expires_at < now
IsExpired(record, t) == \E e \in record.expires_at : e < t

\* create_token line 28: expires_at = now + timedelta(seconds=ttl_seconds)
ExpiresAt(t, ttl_seconds) == {t + ttl_seconds}

\* ------------------------------------- the token service, step by step
\* A caller p of the token service. Each await of create_token and
\* consume_token (a repository call) is one step, so that two callers interleave
\* where two sessions of the database can.

IdleProc ==
    [pc |-> "idle", op |-> "", token |-> 0, type |-> "", entity_id |-> 0,
     extra_data |-> {}, expires_at |-> {}, one_time |-> TRUE, record |-> {},
     call_time |-> 0, ret |-> {}, err |-> ""]

InFlightCreates == Cardinality({p \in Procs : procs[p].pc \in {"create_check", "create_insert"}})

\* create_token lines 28-29: compute expires_at, draw the first token string
CreateStart(p, type, entity_id, ttl_seconds, t) ==
    /\ procs[p].pc = "idle"
    /\ token_id_seq + InFlightCreates < MaxTokenId
    /\ procs' = [procs EXCEPT ![p] =
            [IdleProc EXCEPT !.pc = "create_check", !.op = "create", !.token = t,
                             !.type = type, !.entity_id = entity_id,
                             !.expires_at = ExpiresAt(now, ttl_seconds)]]
    /\ UNCHANGED <<now, calls, dbVars, tokVars, histVars, last>>

\* create_token lines 31-32: one turn of the collision loop
CreateCheck(p) ==
    /\ procs[p].pc = "create_check"
    /\ IF TokenRepoGet(callback_tokens, procs[p].token) # {}
       THEN \E t \in TokenStrings : procs' = [procs EXCEPT ![p].token = t]
       ELSE procs' = [procs EXCEPT ![p].pc = "create_insert"]
    /\ UNCHANGED <<now, calls, dbVars, tokVars, histVars, last>>

\* create_token line 33: self._repo.create(...)
CreateInsert(p) ==
    /\ procs[p].pc = "create_insert"
    /\ LET c == TokenRepoCreate(callback_tokens, token_id_seq, procs[p].token,
                                procs[p].type, procs[p].entity_id,
                                procs[p].extra_data, procs[p].expires_at)
       IN /\ callback_tokens' = c.store
          /\ token_id_seq' = c.seq
          /\ issued' = issued \cup c.record
          /\ procs' = [procs EXCEPT ![p].pc = "done", ![p].ret = c.record,
                                    ![p].err = c.err]
    /\ UNCHANGED <<now, calls, dbVars, redeemed, deleted, last>>

\* consume_token lines 36-42: the lookup, and the expiry test made on its result
ConsumeStart(p, t, one_time) ==
    /\ procs[p].pc = "idle"
    /\ LET record == TokenRepoGet(callback_tokens, t)
           base == [IdleProc EXCEPT !.op = "consume", !.token = t,
                                    !.one_time = one_time, !.record = record,
                                    !.call_time = now]
       IN procs' = [procs EXCEPT ![p] =
            IF record = {} THEN [base EXCEPT !.pc = "done"]
            ELSE IF IsExpired(TheOne(record), now)
                 THEN [base EXCEPT !.pc = "consume_delete_expired"]
            ELSE IF one_time THEN [base EXCEPT !.pc = "consume_delete"]
            ELSE [base EXCEPT !.pc = "done", !.ret = record]]
    /\ UNCHANGED <<now, calls, dbVars, tokVars, histVars, last>>

\* consume_token lines 40-41: delete the expired row, return None
ConsumeDeleteExpired(p) ==
    /\ procs[p].pc = "consume_delete_expired"
    /\ callback_tokens' = TokenRepoDelete(callback_tokens, procs[p].token)
    /\ deleted' = IF TokenRepoGet(callback_tokens, procs[p].token) # {}
                  THEN deleted \cup {procs[p].token} ELSE deleted
    /\ procs' = [procs EXCEPT ![p].pc = "done", ![p].ret = {}]
    /\ UNCHANGED <<now, calls, dbVars, token_id_seq, issued, redeemed, last>>

\* consume_token lines 43-44: delete the row, return the record read before
ConsumeDelete(p) ==
    /\ procs[p].pc = "consume_delete"
    /\ callback_tokens' = TokenRepoDelete(callback_tokens, procs[p].token)
    /\ deleted' = IF TokenRepoGet(callback_tokens, procs[p].token) # {}
                  THEN deleted \cup {procs[p].token} ELSE deleted
    /\ redeemed' = redeemed \cup {r.id : r \in procs[p].record}
    /\ procs' = [procs EXCEPT ![p].pc = "done", ![p].ret = procs[p].record]
    /\ UNCHANGED <<now, calls, dbVars, token_id_seq, issued, last>>

\* The caller takes the result and is free for its next call
Return(p) ==
    /\ procs[p].pc = "done"
    /\ procs' = [procs EXCEPT ![p] = IdleProc]
    /\ UNCHANGED <<now, calls, dbVars, tokVars, histVars, last>>

\* datetime.now(timezone.utc) advances
Tick ==
    /\ now < MaxTime
    /\ now' = now + TickSeconds
    /\ UNCHANGED <<dbVars, tokVars, procs, calls, histVars, last>>

\* The arguments the callers of the token service pass
TriedTypes == {"OPEN_MESSAGE"}
TriedEntityIds == {0}
TriedTtls == {TtlPaginate}

ProcStep(p) ==
    \/ \E type \in TriedTypes, e \in TriedEntityIds, ttl \in TriedTtls,
          t \in TokenStrings :
            CreateStart(p, type, e, ttl, t)
    \/ CreateCheck(p)
    \/ CreateInsert(p)
    \/ \E t \in TokenStrings : ConsumeStart(p, t, TRUE)
    \/ ConsumeDeleteExpired(p)
    \/ ConsumeDelete(p)
    \/ Return(p)

NoLast ==
    [op |-> "", user |-> 0, slug |-> 0, message_id |-> 0, text |-> "", flag |-> FALSE,
     result |-> ""]

EmptyDb ==
    /\ users = {}
    /\ links = <<>>
    /\ messages = <<>>
    /\ threads = <<>>
    /\ thread_messages = <<>>
    /\ dialog_states = [u \in Users |-> {}]

TokInit ==
    /\ now = 0
    /\ EmptyDb
    /\ callback_tokens = {}
    /\ token_id_seq = 0
    /\ procs = [p \in Procs |-> IdleProc]
    /\ calls = [p \in Procs |-> IdleCall]
    /\ issued = {}
    /\ redeemed = {}
    /\ deleted = {}
    /\ last = NoLast

\* Concurrent callers of the token service
TokNext == Tick \/ \E p \in Procs : ProcStep(p)
SpecTok == TokInit /\ [][TokNext]_vars

\* Sequential callers: a call starts and runs only while no other call is running
OthersIdle(p) == \A q \in Procs \ {p} : procs[q].pc \in {"idle", "done"}
TokSeqNext == Tick \/ \E p \in Procs : OthersIdle(p) /\ ProcStep(p)
SpecTokSeq == TokInit /\ [][TokSeqNext]_vars

\* ========================================================= repositories

Range(f) == {f[i] : i \in DOMAIN f}

\* Message texts, by what the handlers test of them: the two reveal choices, the
\* skip sentinel of the link wizard, a blank text, a text of MaxTextLen + 1
\* characters, and ordinary texts.
\* (the button captions, written here in Latin letters)
REVEAL_ALLOW == "Razreshit raskrytie"
REVEAL_DENY == "Zapretit raskrytie"
SkipText == "-"
BlankText == " "
LongText == "<a text of MaxTextLen + 1 characters>"
PlainTexts == {"hello", "reply"}
\* len(text)
TextLen(text) == IF text = LongText THEN MaxTextLen + 1 ELSE Len(text)

\* A row of links as SqlAlchemyLinkRepository.create inserts it: is_active takes
\* its server default true, deleted_at is NULL
NewLink(id, owner_user_id, slug, label, prompt) ==
    [id |-> id, owner_user_id |-> owner_user_id, slug |-> slug, label |-> label,
     prompt |-> prompt, is_active |-> TRUE, deleted_at |-> {}]

\* Mutant: get_by_slug finds soft-deleted links too
LinkRepoGetBySlug_Any(slug) == {l \in Range(links) : l.slug = slug}

\* SqlAlchemyLinkRepository.get_by_slug: WHERE slug = :slug AND deleted_at IS NULL
LinkRepoGetBySlug(slug) == {l \in Range(links) : l.slug = slug /\ l.deleted_at = {}}

\* SqlAlchemyLinkRepository.get_by_id: WHERE id = :id AND deleted_at IS NULL
LinkRepoGetById(link_id) == {l \in Range(links) : l.id = link_id /\ l.deleted_at = {}}

\* SqlAlchemyLinkRepository.list_by_owner
LinkRepoListByOwner(owner_user_id) ==
    {l \in Range(links) : l.owner_user_id = owner_user_id /\ l.deleted_at = {}}

\* Mutant: exists_slug looks at the links that are not deleted only
LinkRepoExistsSlug_Live(slug) == \E l \in Range(links) : l.slug = slug /\ l.deleted_at = {}

\* SqlAlchemyLinkRepository.exists_slug: count(*) WHERE slug = :slug > 0
LinkRepoExistsSlug(slug) == \E l \in Range(links) : l.slug = slug

\* SqlAlchemyLinkRepository.create; links.slug is unique
LinkRepoCreate(owner_user_id, slug, label, prompt) ==
    IF \E l \in Range(links) : l.slug = slug
    THEN [err |-> "IntegrityError", links |-> links, link |-> {}]
    ELSE LET l == NewLink(Len(links) + 1, owner_user_id, slug, label, prompt)
         IN [err |-> "", links |-> Append(links, l), link |-> {l}]

\* Mutant: the new message is stored as already read
MessageRepoCreate_Read(msgs, link_id, recipient_user_id, sender_user_id, text, is_reveal_allowed, t) ==
    Append(msgs,
        [id |-> Len(msgs) + 1, link_id |-> link_id,
         recipient_user_id |-> recipient_user_id, sender_user_id |-> sender_user_id,
         text |-> text, is_reveal_allowed |-> is_reveal_allowed, is_revealed |-> FALSE,
         status |-> "READ", is_reported |-> FALSE, created_at |-> t,
         delivered_at |-> {}, read_at |-> {}])

\* SqlAlchemyMessageRepository.create: status NEW; is_revealed and is_reported
\* take their server default false; created_at is now()
MessageRepoCreate(msgs, link_id, recipient_user_id, sender_user_id, text, is_reveal_allowed, t) ==
    Append(msgs,
        [id |-> Len(msgs) + 1, link_id |-> link_id,
         recipient_user_id |-> recipient_user_id, sender_user_id |-> sender_user_id,
         text |-> text, is_reveal_allowed |-> is_reveal_allowed, is_revealed |-> FALSE,
         status |-> "NEW", is_reported |-> FALSE, created_at |-> t,
         delivered_at |-> {}, read_at |-> {}])

\* SqlAlchemyMessageRepository.get_by_id
MessageRepoGetById(msgs, message_id) == {m \in Range(msgs) : m.id = message_id}

\* Mutant: mark_revealed flips the flag instead of setting it
MessageRepoMarkRevealed_Toggle(msgs, message_id) ==
    [i \in DOMAIN msgs |->
        IF msgs[i].id = message_id
        THEN [msgs[i] EXCEPT !.is_revealed = ~msgs[i].is_revealed]
        ELSE msgs[i]]

\* SqlAlchemyMessageRepository.mark_revealed: UPDATE ... SET is_revealed = true WHERE id = :id
MessageRepoMarkRevealed(msgs, message_id) ==
    [i \in DOMAIN msgs |->
        IF msgs[i].id = message_id THEN [msgs[i] EXCEPT !.is_revealed = TRUE]
        ELSE msgs[i]]

\* Mutant: mark_read sets is_revealed instead of the status
MessageRepoMarkRead_AsRevealed(msgs, message_id) ==
    [i \in DOMAIN msgs |->
        IF msgs[i].id = message_id THEN [msgs[i] EXCEPT !.is_revealed = TRUE]
        ELSE msgs[i]]

\* SqlAlchemyMessageRepository.mark_read: UPDATE ... SET status = 'READ' WHERE id = :id
MessageRepoMarkRead(msgs, message_id) ==
    [i \in DOMAIN msgs |->
        IF msgs[i].id = message_id THEN [msgs[i] EXCEPT !.status = "READ"]
        ELSE msgs[i]]

\* Mutant: the lookup of the thread never finds it
ThreadRepoGetByRootMessage_Miss(thrs, message_id) == {}

\* SqlAlchemyThreadRepository.get_by_root_message
ThreadRepoGetByRootMessage(thrs, message_id) ==
    {t \in Range(thrs) : t.root_message_id = message_id}

\* SqlAlchemyThreadRepository.create; threads.root_message_id is unique
ThreadRepoCreate(thrs, root_message_id, t) ==
    IF \E x \in Range(thrs) : x.root_message_id = root_message_id
    THEN [err |-> "IntegrityError", threads |-> thrs, thread |-> {}]
    ELSE LET x == [id |-> Len(thrs) + 1, root_message_id |-> root_message_id,
                   created_at |-> t, closed_at |-> {}]
         IN [err |-> "", threads |-> Append(thrs, x), thread |-> {x}]

\* SqlAlchemyThreadMessageRepository.create
ThreadMessageRepoCreate(tms, thread_id, from_user_id, to_user_id, text, t) ==
    Append(tms,
        [id |-> Len(tms) + 1, thread_id |-> thread_id, from_user_id |-> from_user_id,
         to_user_id |-> to_user_id, text |-> text, created_at |-> t, read_at |-> {}])

\* SqlAlchemyUserRepository.get_by_id / get_by_telegram_id
UserRepoGet(user_id) == {u \in users : u = user_id}

\* ====================================================== domain services

\* Mutant: an inactive link is accepted
LinkUsable_IgnoreActive(link) == link # {}

\* SendAnonymousMessageService.execute line 26: not (link is None or not link.is_active)
LinkUsable(link) == link # {} /\ TheOne(link).is_active

\* SendAnonymousMessageService.execute
SendAnonymousMessage(slug, text, is_reveal_allowed, sender_user_id) ==
    LET link == LinkRepoGetBySlug(slug) IN
    IF ~LinkUsable(link)
    THEN [err |-> "ValueError", messages |-> messages, message |-> {}]
    ELSE LET msgs == MessageRepoCreate(messages, TheOne(link).id,
                        TheOne(link).owner_user_id, sender_user_id, text,
                        is_reveal_allowed, now)
         IN [err |-> "", messages |-> msgs, message |-> {msgs[Len(msgs)]}]

\* Mutant: the reply always goes to the recipient of the root message
ReplyToUser_Recipient(message) == message.recipient_user_id

\* ReplyToMessageService.execute line 76: message.sender_user_id or message.recipient_user_id
ReplyToUser(message) ==
    IF message.sender_user_id # {} /\ message.sender_user_id # {0}
    THEN TheOne(message.sender_user_id)
    ELSE message.recipient_user_id

\* ReplyToMessageService.execute, run by one caller without interruption
ReplyToMessage(message_id, from_user_id, text) ==
    LET message == MessageRepoGetById(messages, message_id)
        none == [err |-> "ValueError", threads |-> threads,
                 thread_messages |-> thread_messages, messages |-> messages,
                 thread |-> {}, reply |-> {}]
    IN
    IF message = {} THEN none
    ELSE
    LET found == ThreadRepoGetByRootMessage(threads, message_id)
        made == IF found = {} THEN ThreadRepoCreate(threads, message_id, now)
                ELSE [err |-> "", threads |-> threads, thread |-> found]
    IN
    IF made.err # "" THEN [none EXCEPT !.err = made.err]
    ELSE
    LET tms == ThreadMessageRepoCreate(thread_messages, TheOne(made.thread).id,
                    from_user_id, ReplyToUser(TheOne(message)), text, now)
    IN [err |-> "", threads |-> made.threads, thread_messages |-> tms,
        messages |-> MessageRepoMarkRead(messages, message_id),
        thread |-> made.thread, reply |-> {tms[Len(tms)]}]

\* Mutant: the permission test is missing
RevealPermitted_Always(message) == TRUE

\* RevealAuthorService.execute line 30: message.is_reveal_allowed
RevealPermitted(message) == message.is_reveal_allowed

\* RevealAuthorService.execute
RevealAuthor(message_id) ==
    LET message == MessageRepoGetById(messages, message_id)
        fail(e) == [err |-> e, messages |-> messages, sender |-> {}, link |-> {}]
    IN
    IF message = {} THEN fail("ValueError")
    ELSE IF ~RevealPermitted(TheOne(message)) THEN fail("PermissionError")
    ELSE
    LET sender == UNION {UserRepoGet(u) : u \in TheOne(message).sender_user_id}
        link == LinkRepoGetById(TheOne(message).link_id)
    IN
    IF link = {} THEN fail("ValueError")
    ELSE [err |-> "", messages |-> MessageRepoMarkRevealed(messages, message_id),
          sender |-> sender, link |-> link]

\* CreateLinkService.execute, run by one caller without interruption: the loop
\* ends with a drawn slug that exists_slug does not find
CreateLink(owner_user_id, label, prompt, slug) ==
    LinkRepoCreate(owner_user_id, slug, label, prompt)

\* ------------------------------------------- the services called directly
\* (as the unit tests call them), one call at a time

\* The call just made and its outcome: op and the arguments it was given (user:
\* the sender or replier, 0 for none; flag: the is_reveal_allowed argument of a
\* send, and for a reveal whether the message was already revealed when the call
\* was made), result the exception raised ("" when it returned).
Answer(op, user, slug, message_id, text, flag, result) ==
    [op |-> op, user |-> user, slug |-> slug, message_id |-> message_id,
     text |-> text, flag |-> flag, result |-> result]

\* The links table as found when the bot starts: nothing in this repository
\* deactivates a link (no set_active exists), so an inactive link is a row
\* written straight to the table.
SeedLinks ==
    {<<[NewLink(1, 1, 1, "L1", {}) EXCEPT !.is_active = a]>> : a \in BOOLEAN}

SvcSend(slug, text, is_reveal_allowed, sender_user_id) ==
    /\ Len(messages) < MaxMessages
    /\ LET r == SendAnonymousMessage(slug, text, is_reveal_allowed, sender_user_id)
       IN /\ messages' = r.messages
          /\ last' = Answer("send", IF sender_user_id = {} THEN 0 ELSE TheOne(sender_user_id),
                             slug, 0, text, is_reveal_allowed, r.err)
    /\ UNCHANGED <<now, users, links, threads, thread_messages, dialog_states,
                   tokVars, procs, calls, histVars>>

SvcReply(message_id, from_user_id, text) ==
    /\ Len(thread_messages) < MaxThreadMessages
    /\ LET r == ReplyToMessage(message_id, from_user_id, text)
       IN /\ messages' = r.messages
          /\ threads' = r.threads
          /\ thread_messages' = r.thread_messages
          /\ last' = Answer("reply", from_user_id, 0, message_id, text, FALSE, r.err)
    /\ UNCHANGED <<now, users, links, dialog_states, tokVars, procs, calls, histVars>>

SvcReveal(message_id) ==
    /\ LET r == RevealAuthor(message_id)
       IN /\ messages' = r.messages
          /\ last' = Answer("reveal", 0, 0, message_id, "",
                             \E m \in MessageRepoGetById(messages, message_id) : m.is_revealed,
                             r.err)
    /\ UNCHANGED <<now, users, links, threads, thread_messages, dialog_states,
                   tokVars, procs, calls, histVars>>

SvcInit ==
    /\ now = 0
    /\ users = Users
    /\ links \in SeedLinks
    /\ messages = <<>>
    /\ threads = <<>>
    /\ thread_messages = <<>>
    /\ dialog_states = [u \in Users |-> {}]
    /\ callback_tokens = {}
    /\ token_id_seq = 0
    /\ procs = [p \in Procs |-> IdleProc]
    /\ calls = [p \in Procs |-> IdleCall]
    /\ issued = {}
    /\ redeemed = {}
    /\ deleted = {}
    /\ last = NoLast

\* The senders tried: an anonymous sender without an account row and a registered one
TriedSenders == {{}, {2}}
MessageIds == 1..MaxMessages

SvcNext ==
    \/ \E slug \in Slugs, text \in PlainTexts, a \in BOOLEAN, sender \in TriedSenders :
          SvcSend(slug, text, a, sender)
    \/ \E mid \in MessageIds : SvcReply(mid, 1, "reply")
    \/ \E mid \in MessageIds : SvcReveal(mid)

SpecSvc == SvcInit /\ [][SvcNext]_vars

\* --------------------- ReplyToMessageService.execute, one repository call
\* at a time: every repository call commits on its own, so callers interleave
\* between the calls and a caller that dies leaves what it committed

\* message = await message_repo.get_by_id(message_id); raise if None
ReplyStart(p, message_id, from_user_id, text) ==
    /\ calls[p].pc = "idle"
    /\ LET message == MessageRepoGetById(messages, message_id) IN
       calls' = [calls EXCEPT ![p] =
          [IdleCall EXCEPT !.op = "reply", !.message_id = message_id,
                           !.from_user_id = from_user_id, !.text = text,
                           !.message = message,
                           !.pc = IF message = {} THEN "done" ELSE "reply_lookup",
                           !.err = IF message = {} THEN "ValueError" ELSE ""]]
    /\ UNCHANGED <<now, dbVars, tokVars, procs, histVars, last>>

\* thread = await thread_repo.get_by_root_message(message_id)
ReplyLookup(p) ==
    /\ calls[p].pc = "reply_lookup"
    /\ LET thread == ThreadRepoGetByRootMessage(threads, calls[p].message_id) IN
       calls' = [calls EXCEPT ![p].thread = thread,
                              ![p].pc = IF thread = {} THEN "reply_create_thread"
                                        ELSE "reply_append"]
    /\ UNCHANGED <<now, dbVars, tokVars, procs, histVars, last>>

\* thread = await thread_repo.create(root_message_id=message_id)
ReplyCreateThread(p) ==
    /\ calls[p].pc = "reply_create_thread"
    /\ LET r == ThreadRepoCreate(threads, calls[p].message_id, now) IN
       /\ threads' = r.threads
       /\ calls' = [calls EXCEPT ![p].thread = r.thread, ![p].err = r.err,
                                 ![p].pc = IF r.err = "" THEN "reply_append" ELSE "done"]
    /\ UNCHANGED <<now, users, links, messages, thread_messages, dialog_states,
                   tokVars, procs, histVars, last>>

\* reply = await thread_message_repo.create(...)
ReplyAppend(p) ==
    /\ calls[p].pc = "reply_append"
    /\ Len(thread_messages) < MaxThreadMessages
    /\ thread_messages' = ThreadMessageRepoCreate(thread_messages,
            TheOne(calls[p].thread).id, calls[p].from_user_id,
            ReplyToUser(TheOne(calls[p].message)), calls[p].text, now)
    /\ calls' = [calls EXCEPT ![p].ret = {thread_messages'[Len(thread_messages')]},
                              ![p].pc = "reply_mark_read"]
    /\ UNCHANGED <<now, users, links, messages, threads, dialog_states, tokVars,
                   procs, histVars, last>>

\* await message_repo.mark_read(message_id); return
ReplyMarkRead(p) ==
    /\ calls[p].pc = "reply_mark_read"
    /\ messages' = MessageRepoMarkRead(messages, calls[p].message_id)
    /\ calls' = [calls EXCEPT ![p].pc = "done"]
    /\ UNCHANGED <<now, users, links, threads, thread_messages, dialog_states,
                   tokVars, procs, histVars, last>>

\* The caller has its result or its exception and may call again
CallReturn(p) ==
    /\ calls[p].pc = "done"
    /\ calls' = [calls EXCEPT ![p] = IdleCall]
    /\ UNCHANGED <<now, dbVars, tokVars, procs, histVars, last>>

\* The process dies between two repository calls
Crash(p) ==
    /\ calls[p].pc \notin {"idle", "done"}
    /\ calls' = [calls EXCEPT ![p] = IdleCall]
    /\ UNCHANGED <<now, dbVars, tokVars, procs, histVars, last>>

\* The messages table the reply callers find: one message, with or without a
\* recorded sender, received by the owner of the seeded link
SeedMessages ==
    {MessageRepoCreate(<<>>, 1, 1, sender, "hello", FALSE, 0) : sender \in TriedSenders}

\* The repliers tried: the recipient of the seeded message and another user
TriedRepliers == {1, 2}

ReplyInit ==
    /\ now = 0
    /\ users = Users
    /\ links \in SeedLinks
    /\ messages \in SeedMessages
    /\ threads = <<>>
    /\ thread_messages = <<>>
    /\ dialog_states = [u \in Users |-> {}]
    /\ callback_tokens = {}
    /\ token_id_seq = 0
    /\ procs = [p \in Procs |-> IdleProc]
    /\ calls = [p \in Procs |-> IdleCall]
    /\ issued = {}
    /\ redeemed = {}
    /\ deleted = {}
    /\ last = NoLast

ReplyStep(p) ==
    \/ \E mid \in MessageIds, u \in TriedRepliers : ReplyStart(p, mid, u, "reply")
    \/ ReplyLookup(p)
    \/ ReplyCreateThread(p)
    \/ ReplyAppend(p)
    \/ ReplyMarkRead(p)
    \/ CallReturn(p)
    \/ Crash(p)

ReplyNext == \E p \in Procs : ReplyStep(p)

SpecReply == ReplyInit /\ [][ReplyNext]_vars

\* ------------------------- CreateLinkService.execute, one repository call
\* at a time

\* slug = self._generate_slug()
LinkStart(p, owner_user_id, label, prompt, slug) ==
    /\ calls[p].pc = "idle"
    /\ calls' = [calls EXCEPT ![p] =
          [IdleCall EXCEPT !.op = "create_link", !.owner_user_id = owner_user_id,
                           !.label = label, !.prompt = prompt, !.slug = slug,
                           !.pc = "link_check"]]
    /\ UNCHANGED <<now, dbVars, tokVars, procs, histVars, last>>

\* while await link_repo.exists_slug(slug): slug = self._generate_slug()
LinkCheck(p) ==
    /\ calls[p].pc = "link_check"
    /\ IF LinkRepoExistsSlug(calls[p].slug)
       THEN \E slug \in Slugs : calls' = [calls EXCEPT ![p].slug = slug]
       ELSE calls' = [calls EXCEPT ![p].pc = "link_insert"]
    /\ UNCHANGED <<now, dbVars, tokVars, procs, histVars, last>>

\* return await link_repo.create(...)
LinkInsert(p) ==
    /\ calls[p].pc = "link_insert"
    /\ LET r == LinkRepoCreate(calls[p].owner_user_id, calls[p].slug, calls[p].label,
                               calls[p].prompt)
       IN /\ links' = r.links
          /\ calls' = [calls EXCEPT ![p].pc = "done", ![p].err = r.err, ![p].ret = r.link]
    /\ UNCHANGED <<now, users, messages, threads, thread_messages, dialog_states,
                   tokVars, procs, histVars, last>>

\* The links table the callers find: the seeded link, live or soft-deleted
SeedLinksAny ==
    SeedLinks \cup {<<[NewLink(1, 1, 1, "L1", {}) EXCEPT !.deleted_at = {0}]>>}

LinkInit ==
    /\ now = 0
    /\ users = Users
    /\ links \in SeedLinksAny
    /\ messages = <<>>
    /\ threads = <<>>
    /\ thread_messages = <<>>
    /\ dialog_states = [u \in Users |-> {}]
    /\ callback_tokens = {}
    /\ token_id_seq = 0
    /\ procs = [p \in Procs |-> IdleProc]
    /\ calls = [p \in Procs |-> IdleCall]
    /\ issued = {}
    /\ redeemed = {}
    /\ deleted = {}
    /\ last = NoLast

LinkStep(p) ==
    \/ \E u \in Users, slug \in Slugs : LinkStart(p, u, "L2", {}, slug)
    \/ LinkCheck(p)
    \/ LinkInsert(p)
    \/ CallReturn(p)

LinkNext == \E p \in Procs : LinkStep(p)

SpecLink == LinkInit /\ [][LinkNext]_vars

\* ===================================================== the bot as a whole
\* python-telegram-bot's Application is built without concurrent_updates
\* (main_bot.py), so updates are handled one at a time: a handler is one action.
\* An exception leaves what the repositories committed before it.

\* dialog_states.data, a dict: one field per key the handlers use
NoData ==
    [pending_link_slug |-> {}, pending_reveal_allowed |-> {},
     reply_to_message_id |-> {}, label |-> {}]

\* DialogStateStore.get_state
GetState(user_id) == dialog_states[user_id]

\* Mutant: set_state updates the stored dict instead of replacing it
SetState_Merge(user_id, state, data) ==
    LET old == IF dialog_states[user_id] = {} THEN NoData
               ELSE TheOne(dialog_states[user_id]).data
        merged == [k \in DOMAIN NoData |-> IF data[k] # {} THEN data[k] ELSE old[k]]
    IN [dialog_states EXCEPT ![user_id] = {[state |-> state, data |-> merged]}]

\* DialogStateStore.set_state
SetState(user_id, state, data) ==
    [dialog_states EXCEPT ![user_id] = {[state |-> state, data |-> data]}]

\* Mutant: clear_state returns without deleting when the row carries a payload
ClearState_KeepPayload(user_id) ==
    IF \E row \in dialog_states[user_id] : row.data # NoData THEN dialog_states
    ELSE [dialog_states EXCEPT ![user_id] = {}]

\* DialogStateStore.clear_state
ClearState(user_id) == [dialog_states EXCEPT ![user_id] = {}]

\* SqlAlchemyUserRepository.upsert_from_telegram
UpsertUser(telegram_user_id) == users \cup {telegram_user_id}

\* The token strings secrets.token_urlsafe can return so that create_token's
\* loop ends: those repo.get does not find
FreeStrings(store) == {t \in TokenStrings : TokenRepoGet(store, t) = {}}

\* Mutant: the token is issued without the entity it is about
TokenRequest_NoEntity(type, entity_id, extra_data, ttl_seconds) ==
    [type |-> type, entity_id |-> 0, extra_data |-> extra_data,
     ttl_seconds |-> ttl_seconds]

TokenRequest(type, entity_id, extra_data, ttl_seconds) ==
    [type |-> type, entity_id |-> entity_id, extra_data |-> extra_data,
     ttl_seconds |-> ttl_seconds]

\* CallbackTokenService.create_token called once per request, in order, by one
\* handler: the set of outcomes over the strings drawn. The first failing insert
\* ends the handler.
RECURSIVE CreateTokens(_, _, _, _)
CreateTokens(store, seq, reqs, t) ==
    IF reqs = <<>> THEN {[err |-> "", store |-> store, seq |-> seq]}
    ELSE UNION {
        LET r == TokenRepoCreate(store, seq, tok, reqs[1].type, reqs[1].entity_id,
                                 reqs[1].extra_data, ExpiresAt(t, reqs[1].ttl_seconds))
        IN IF r.err # "" THEN {[err |-> r.err, store |-> r.store, seq |-> r.seq]}
           ELSE CreateTokens(r.store, r.seq, Tail(reqs), t)
        : tok \in FreeStrings(store)}

\* Mutant: consume_token hands out the record it finds, expired or not
ConsumeToken_Expired(store, token, t) ==
    LET record == TokenRepoGet(store, token) IN
    IF record = {} THEN [record |-> {}, store |-> store]
    ELSE [record |-> record, store |-> TokenRepoDelete(store, token)]

\* Mutant: consume_token leaves the row of a token it hands out in the table
ConsumeToken_Keep(store, token, t) ==
    LET record == TokenRepoGet(store, token) IN
    IF record = {} THEN [record |-> {}, store |-> store]
    ELSE IF IsExpired(TheOne(record), t)
         THEN [record |-> {}, store |-> TokenRepoDelete(store, token)]
         ELSE [record |-> record, store |-> store]

\* CallbackTokenService.consume_token(token, one_time=True), uninterrupted
ConsumeToken(store, token, t) ==
    LET record == TokenRepoGet(store, token) IN
    IF record = {} THEN [record |-> {}, store |-> store]
    ELSE IF IsExpired(TheOne(record), t)
         THEN [record |-> {}, store |-> TokenRepoDelete(store, token)]
         ELSE [record |-> record, store |-> TokenRepoDelete(store, token)]

\* What the handler answered: the update's kind, the Telegram user, the reply
Reply(op, user, result) == Answer(op, user, 0, 0, "", FALSE, result)

\* Mutant: the start menu leaves a user who is naming a new link in that state
handle_start_menu_KeepLabel(u) ==
    /\ users' = UpsertUser(u)
    /\ dialog_states' = IF \E row \in dialog_states[u] : row.state = "await_link_label"
                        THEN dialog_states ELSE ClearState(u)
    /\ last' = Reply("start", u, "greeting_menu")
    /\ UNCHANGED <<now, links, messages, threads, thread_messages, tokVars, procs, calls,
                   histVars>>

\* handle_start_menu
handle_start_menu(u) ==
    /\ users' = UpsertUser(u)
    /\ dialog_states' = ClearState(u)
    /\ last' = Reply("start", u, "greeting_menu")
    /\ UNCHANGED <<now, links, messages, threads, thread_messages, tokVars, procs, calls,
                   histVars>>

\* handle_start_with_link
handle_start_with_link(u, slug) ==
    LET link == LinkRepoGetBySlug(slug) IN
    /\ users' = UpsertUser(u)
    /\ IF link = {} \/ ~TheOne(link).is_active
       THEN /\ dialog_states' = dialog_states
            /\ last' = Reply("start", u, "invalid_link")
       ELSE /\ dialog_states' = SetState(u, "await_reveal_choice",
                                    [NoData EXCEPT !.pending_link_slug = {slug}])
            /\ last' = Reply("start", u, "reveal_choice")
    /\ UNCHANGED <<now, links, messages, threads, thread_messages, tokVars, procs, calls,
                   histVars>>

\* start_handler; arg is the slug of a "link_<slug>" argument, 0 for any other
\* or no argument
start_handler(u, arg) ==
    IF arg \in Slugs THEN handle_start_with_link(u, arg) ELSE handle_start_menu(u)

\* Mutant: either label is stored as leave to reveal the author
handle_reveal_choice_AlwaysAllow(u, text, state_data) ==
    /\ IF text \notin {REVEAL_ALLOW, REVEAL_DENY}
       THEN /\ dialog_states' = dialog_states
            /\ last' = Reply("text", u, "choose_one")
       ELSE IF state_data.pending_link_slug = {}
       THEN /\ dialog_states' = dialog_states
            /\ last' = Reply("text", u, "session_stale")
       ELSE /\ dialog_states' = SetState(u, "await_message_text",
                    [NoData EXCEPT !.pending_link_slug = state_data.pending_link_slug,
                                   !.pending_reveal_allowed = {TRUE}])
            /\ last' = Reply("text", u, "enter_message_text")
    /\ UNCHANGED <<now, links, messages, threads, thread_messages, tokVars, procs, calls,
                   histVars>>

\* handle_reveal_choice
handle_reveal_choice(u, text, state_data) ==
    /\ IF text \notin {REVEAL_ALLOW, REVEAL_DENY}
       THEN /\ dialog_states' = dialog_states
            /\ last' = Reply("text", u, "choose_one")
       ELSE IF state_data.pending_link_slug = {}
       THEN /\ dialog_states' = dialog_states
            /\ last' = Reply("text", u, "session_stale")
       ELSE /\ dialog_states' = SetState(u, "await_message_text",
                    [NoData EXCEPT !.pending_link_slug = state_data.pending_link_slug,
                                   !.pending_reveal_allowed = {text = REVEAL_ALLOW}])
            /\ last' = Reply("text", u, "enter_message_text")
    /\ UNCHANGED <<now, links, messages, threads, thread_messages, tokVars, procs, calls,
                   histVars>>

\* handle_message_text
handle_message_text(u, text, state_data) ==
    IF TextLen(text) < 1 \/ TextLen(text) > MaxTextLen
    THEN /\ last' = Reply("text", u, "message_too_short")
         /\ UNCHANGED <<now, links, messages, threads, thread_messages,
                        dialog_states, tokVars, procs, calls, histVars>>
    ELSE IF state_data.pending_link_slug = {} \/ state_data.pending_reveal_allowed = {}
    THEN /\ dialog_states' = ClearState(u)
         /\ last' = Reply("text", u, "session_expired")
         /\ UNCHANGED <<now, links, messages, threads, thread_messages, tokVars,
                        procs, calls, histVars>>
    ELSE
    LET r == SendAnonymousMessage(TheOne(state_data.pending_link_slug), text,
                                  TheOne(state_data.pending_reveal_allowed), {u})
    IN
    IF r.err # ""
    THEN /\ last' = Reply("text", u, r.err)
         /\ UNCHANGED <<now, links, messages, threads, thread_messages,
                        dialog_states, tokVars, procs, calls, histVars>>
    ELSE /\ Len(messages) < MaxSysMessages
         /\ token_id_seq < MaxSysTokens
         /\ messages' = r.messages
         /\ \E c \in CreateTokens(callback_tokens, token_id_seq,
                        <<TokenRequest("OPEN_MESSAGE", TheOne(r.message).id, {}, TtlNotify)>>,
                        now) :
               /\ callback_tokens' = c.store
               /\ token_id_seq' = c.seq
         /\ dialog_states' = ClearState(u)
         /\ last' = Reply("text", u, "message_sent")
         /\ UNCHANGED <<now, links, threads, thread_messages, procs, calls, histVars>>

\* handle_reply_text
handle_reply_text(u, text, state_data) ==
    IF TextLen(text) < 1 \/ TextLen(text) > MaxTextLen
    THEN /\ last' = Reply("text", u, "reply_length")
         /\ UNCHANGED <<now, links, messages, threads, thread_messages,
                        dialog_states, tokVars, procs, calls, histVars>>
    ELSE IF state_data.reply_to_message_id = {}
    THEN /\ dialog_states' = ClearState(u)
         /\ last' = Reply("text", u, "reply_session_stale")
         /\ UNCHANGED <<now, links, messages, threads, thread_messages, tokVars,
                        procs, calls, histVars>>
    ELSE
    LET r == ReplyToMessage(TheOne(state_data.reply_to_message_id), u, text) IN
    IF r.err = "ValueError"
    THEN /\ dialog_states' = ClearState(u)
         /\ last' = Reply("text", u, "message_not_found")
         /\ UNCHANGED <<now, links, messages, threads, thread_messages, tokVars,
                        procs, calls, histVars>>
    ELSE IF r.err # ""
    THEN /\ last' = Reply("text", u, r.err)
         /\ UNCHANGED <<now, links, messages, threads, thread_messages,
                        dialog_states, tokVars, procs, calls, histVars>>
    ELSE /\ Len(thread_messages) < MaxThreadMessages
         /\ messages' = r.messages
         /\ threads' = r.threads
         /\ thread_messages' = r.thread_messages
         /\ dialog_states' = ClearState(u)
         /\ last' = Reply("text", u, "reply_sent")
         /\ UNCHANGED <<now, links, tokVars, procs, calls, histVars>>

\* An ordinary text typed with a space before and after it
PaddedText == " hello "

\* text.strip(): of the texts here the blank one and the padded one have
\* whitespace to lose
Strip(text) ==
    IF text = BlankText THEN "" ELSE IF text = PaddedText THEN "hello" ELSE text

\* Mutant: handle_link_label stores the label without the test for a blank one
handle_link_label_NoBlankTest(u, text) ==
    /\ dialog_states' = SetState(u, "await_link_prompt",
                             [NoData EXCEPT !.label = {Strip(text)}])
    /\ last' = Reply("text", u, "enter_link_prompt")
    /\ UNCHANGED <<now, links, messages, threads, thread_messages, tokVars, procs, calls,
                   histVars>>

\* handle_link_label
handle_link_label(u, text) ==
    /\ IF Strip(text) = ""
       THEN /\ dialog_states' = dialog_states
            /\ last' = Reply("text", u, "enter_link_label")
       ELSE /\ dialog_states' = SetState(u, "await_link_prompt",
                                    [NoData EXCEPT !.label = {Strip(text)}])
            /\ last' = Reply("text", u, "enter_link_prompt")
    /\ UNCHANGED <<now, links, messages, threads, thread_messages, tokVars, procs, calls,
                   histVars>>

\* Mutant: the link is created and the session is kept
handle_link_prompt_KeepSession(u, text, state_data) ==
    IF state_data.label = {}
    THEN /\ last' = Reply("text", u, "session_expired")
         /\ UNCHANGED <<now, links, messages, threads, thread_messages,
                        dialog_states, tokVars, procs, calls, histVars>>
    ELSE \E slug \in Slugs :
         /\ ~LinkRepoExistsSlug(slug)
         /\ links' = CreateLink(u, TheOne(state_data.label),
                        IF Strip(text) = SkipText THEN {} ELSE {Strip(text)}, slug).links
         /\ last' = Reply("text", u, "link_created")
         /\ UNCHANGED <<now, messages, threads, thread_messages, dialog_states, tokVars,
                        procs, calls, histVars>>

\* handle_link_prompt; the slug CreateLinkService draws is one exists_slug
\* does not find
handle_link_prompt(u, text, state_data) ==
    IF state_data.label = {}
    THEN /\ last' = Reply("text", u, "session_expired")
         /\ UNCHANGED <<now, links, messages, threads, thread_messages,
                        dialog_states, tokVars, procs, calls, histVars>>
    ELSE \E slug \in Slugs :
         /\ ~LinkRepoExistsSlug(slug)
         /\ links' = CreateLink(u, TheOne(state_data.label),
                        IF Strip(text) = SkipText THEN {} ELSE {Strip(text)}, slug).links
         /\ dialog_states' = ClearState(u)
         /\ last' = Reply("text", u, "link_created")
         /\ UNCHANGED <<now, messages, threads, thread_messages, tokVars, procs, calls,
                        histVars>>

\* ------------------------------------ DialogStateStore called directly

\* The five state tags the handlers use
WizardStates ==
    {"await_reveal_choice", "await_message_text", "await_reply_text",
     "await_link_label", "await_link_prompt"}

\* DialogStateStore.get_state as the caller sees it: (None, {}) without a row,
\* (model.state, model.data or {}) with one
get_state(user_id) ==
    LET row == GetState(user_id) IN
    IF row = {} THEN [state |-> {}, data |-> NoData]
    ELSE [state |-> {TheOne(row).state}, data |-> TheOne(row).data]

\* The payloads tried: the empty dict and the dicts of the message wizard and
\* of the reply button
TriedPayloads ==
    {NoData,
     [NoData EXCEPT !.pending_link_slug = {1}, !.pending_reveal_allowed = {TRUE}],
     [NoData EXCEPT !.reply_to_message_id = {1}]}

\* A key of the stored payload that the payload data does not carry
LosesKey(user_id, data) ==
    \E row \in dialog_states[user_id] :
        \E k \in DOMAIN NoData : row.data[k] # {} /\ data[k] = {}

\* set_state(user_id, state, data); flag: the row replaced had a key data lacks
SessSet(u, state, data) ==
    /\ dialog_states' = SetState(u, state, data)
    /\ last' = Answer("set_state", u, 0, 0, state, LosesKey(u, data), "")
    /\ UNCHANGED <<now, users, links, messages, threads, thread_messages, tokVars,
                   procs, calls, histVars>>

\* clear_state(user_id); flag: a row existed
SessClear(u) ==
    /\ dialog_states' = ClearState(u)
    /\ last' = Answer("clear_state", u, 0, 0, "", dialog_states[u] # {}, "")
    /\ UNCHANGED <<now, users, links, messages, threads, thread_messages, tokVars,
                   procs, calls, histVars>>

SessNext ==
    \/ \E u \in Users, state \in WizardStates, data \in TriedPayloads :
          SessSet(u, state, data)
    \/ \E u \in Users : SessClear(u)

SpecSess == SvcInit /\ [][SessNext]_vars

\* text_message_handler: handle_reply_text is called without state_data
text_message_handler(u, text) ==
    LET st == GetState(u)
        state == IF st = {} THEN "" ELSE TheOne(st).state
        data == IF st = {} THEN NoData ELSE TheOne(st).data
    IN
    /\ users' = UpsertUser(u)
    /\ CASE state = "await_reply_text" -> handle_reply_text(u, text, NoData)
         [] state = "await_reveal_choice" -> handle_reveal_choice(u, text, data)
         [] state = "await_message_text" -> handle_message_text(u, text, data)
         [] state = "await_link_label" -> handle_link_label(u, text)
         [] state = "await_link_prompt" -> handle_link_prompt(u, text, data)
         [] OTHER ->
              /\ last' = Reply("text", u, "send_prompt")
              /\ UNCHANGED <<now, links, messages, threads, thread_messages,
                             dialog_states, tokVars, procs, calls, histVars>>

\* non_text_handler
non_text_handler(u) ==
    /\ last' = Reply("non_text", u, "text_only")
    /\ UNCHANGED <<now, dbVars, tokVars, procs, calls, histVars>>

\* stats_handler
stats_handler(u) ==
    /\ last' = Reply("stats", u, IF UserRepoGet(u) = {} THEN "user_not_found" ELSE "stats")
    /\ UNCHANGED <<now, dbVars, tokVars, procs, calls, histVars>>

Min(a, b) == IF a < b THEN a ELSE b
\* Mutant: max returns its second argument
Max_Second(a, b) == b

Max(a, b) == IF a > b THEN a ELSE b

\* Mutant: list_for_user ignores the offset
ListForUser_FromStart(user_id, status, link_id, from_date, limit, offset) ==
    LET rows == {m \in Range(messages) :
                    /\ m.recipient_user_id = user_id
                    /\ \A s \in status : m.status = s
                    /\ \A l \in link_id : m.link_id = l
                    /\ \A d \in from_date : m.created_at >= d}
        n == Cardinality(rows)
        orders == {o \in [1..n -> rows] :
                      /\ \A i, j \in 1..n : i # j => o[i] # o[j]
                      /\ \A i, j \in 1..n : i < j => o[i].created_at >= o[j].created_at}
    IN {SubSeq(o, 1, Min(limit, n)) : o \in orders}

\* SqlAlchemyMessageRepository.list_for_user: the rows the WHERE clauses keep,
\* ORDER BY created_at DESC (rows of equal created_at in any order), then
\* OFFSET and LIMIT: the set of the pages the query can return
ListForUser(user_id, status, link_id, from_date, limit, offset) ==
    LET rows == {m \in Range(messages) :
                    /\ m.recipient_user_id = user_id
                    /\ \A s \in status : m.status = s
                    /\ \A l \in link_id : m.link_id = l
                    /\ \A d \in from_date : m.created_at >= d}
        n == Cardinality(rows)
        orders == {o \in [1..n -> rows] :
                      /\ \A i, j \in 1..n : i # j => o[i] # o[j]
                      /\ \A i, j \in 1..n : i < j => o[i].created_at >= o[j].created_at}
    IN {SubSeq(o, offset + 1, Min(offset + limit, n)) : o \in orders}

\* datetime.isoformat(): the string of a timestamp, which says all of it
IsoFormat(d) == [iso |-> d]

\* datetime.fromisoformat()
FromIsoFormat(str) == str.iso

\* The filter dict render_messages_page puts in a PAGINATE token: status.name,
\* the slug, from_date.isoformat(), the page size and the offset of the page
\* the token leads to
PageExtra(status, link_slug, from_date, limit, offset) ==
    [NoExtra EXCEPT !.status = status, !.link_slug = link_slug,
                    !.from_ts = {IsoFormat(d) : d \in from_date},
                    !.limit = {limit}, !.offset = {offset}]

\* Mutant: the status filter of the token is not read back
PaginateArgs_NoStatus(extra) ==
    [offset |-> IF extra.offset = {} THEN 0 ELSE TheOne(extra.offset),
     limit |-> IF extra.limit = {} \/ extra.limit = {0} THEN PageLimit
               ELSE TheOne(extra.limit),
     status |-> {},
     link_slug |-> extra.link_slug,
     from_date |-> {FromIsoFormat(str) : str \in extra.from_ts}]

\* callback_query_handler, PAGINATE: the arguments of render_messages_page read
\* from the token's extra_data; MessageStatus[name] gives no status for a name
\* that is none, `or` puts 0 and 5 for a missing or zero offset and limit
PaginateArgs(extra) ==
    [offset |-> IF extra.offset = {} THEN 0 ELSE TheOne(extra.offset),
     limit |-> IF extra.limit = {} \/ extra.limit = {0} THEN PageLimit
               ELSE TheOne(extra.limit),
     status |-> extra.status \cap MessageStatus,
     link_slug |-> extra.link_slug,
     from_date |-> {FromIsoFormat(str) : str \in extra.from_ts}]

\* render_messages_page from the token store as the caller left it: the set of
\* its outcomes (the answer, the token store and the id sequence afterwards)
render_messages_page(u, store, seq, offset, limit, status, link_slug, from_date) ==
    LET link == UNION {LinkRepoGetBySlug(sl) : sl \in link_slug}
        out(result) == {[result |-> result, store |-> store, seq |-> seq]}
    IN
    IF UserRepoGet(u) = {} THEN out("user_not_found")
    ELSE IF link_slug # {} /\ (link = {} \/ TheOne(link).owner_user_id # u)
    THEN out("link_not_found")
    ELSE UNION {
        IF page = <<>> THEN out("no_messages")
        ELSE LET opens == [i \in 1..Len(page) |->
                              TokenRequest("OPEN_MESSAGE", page[i].id, {}, TtlDefault)]
                 prev == IF offset > 0
                         THEN <<TokenRequest("PAGINATE", 0,
                                    {PageExtra(status, link_slug, from_date, limit,
                                               Max(0, offset - limit))}, TtlPaginate)>>
                         ELSE <<>>
                 next == IF Len(page) = limit
                         THEN <<TokenRequest("PAGINATE", 0,
                                    {PageExtra(status, link_slug, from_date, limit,
                                               offset + limit)}, TtlPaginate)>>
                         ELSE <<>>
             IN {[result |-> IF c.err = "" THEN "messages_page" ELSE c.err,
                  store |-> c.store, seq |-> c.seq] :
                    c \in CreateTokens(store, seq, opens \o prev \o next, now)}
        : page \in ListForUser(u, status, {l.id : l \in link}, from_date, limit, offset)}

\* messages_handler; the arguments as _parse_message_filters returns them
messages_handler(u, status, link_slug, from_date) ==
    /\ \E r \in render_messages_page(u, callback_tokens, token_id_seq, 0, PageLimit,
                                     status, link_slug, from_date) :
          /\ r.seq <= MaxSysTokens
          /\ callback_tokens' = r.store
          /\ token_id_seq' = r.seq
          /\ last' = Reply("messages", u, r.result)
    /\ UNCHANGED <<now, dbVars, procs, calls, histVars>>

\* render_links_list from the token store as the caller left it: the set of its
\* outcomes. One LINK_TOGGLE token per link (list_by_owner has no ORDER BY; the
\* order does not show in the outcome), then one LINK_CREATE token.
render_links_list(u, store, seq) ==
    IF UserRepoGet(u) = {}
    THEN {[result |-> "user_not_found", store |-> store, seq |-> seq]}
    ELSE LET owned == LinkRepoListByOwner(u)
             ids == {l.id : l \in owned}
             order == [i \in 1..Cardinality(ids) |->
                          CHOOSE x \in ids : Cardinality({y \in ids : y < x}) = i - 1]
             toggles == [i \in 1..Cardinality(ids) |->
                            TokenRequest("LINK_TOGGLE", order[i],
                                {[NoExtra EXCEPT !.link_id = {order[i]}]}, TtlDefault)]
             create == <<TokenRequest("LINK_CREATE", 0, {NoExtra}, TtlPaginate)>>
         IN {[result |-> IF c.err = "" THEN "links_list" ELSE c.err,
              store |-> c.store, seq |-> c.seq] :
                c \in CreateTokens(store, seq, toggles \o create, now)}

\* links_handler
links_handler(u) ==
    /\ \E r \in render_links_list(u, callback_tokens, token_id_seq) :
          /\ r.seq <= MaxSysTokens
          /\ callback_tokens' = r.store
          /\ token_id_seq' = r.seq
          /\ last' = Reply("links", u, r.result)
    /\ UNCHANGED <<now, dbVars, procs, calls, histVars>>

\* Mutant: the reveal button is offered for every opened message
OpenMessageButtons_AlwaysReveal(message) ==
    <<TokenRequest("REPLY", message.id, {}, TtlDefault),
      TokenRequest("REVEAL_AUTHOR", message.id, {}, TtlDefault)>>

\* The tokens the OPEN_MESSAGE branch issues for the buttons under the opened
\* message: reply, and reveal only if message.is_reveal_allowed
OpenMessageButtons(message) ==
    <<TokenRequest("REPLY", message.id, {}, TtlDefault)>>
    \o (IF message.is_reveal_allowed
        THEN <<TokenRequest("REVEAL_AUTHOR", message.id, {}, TtlDefault)>>
        ELSE <<>>)

\* Mutant: a message's buttons work for whoever presses them
MessageAvailable_Anyone(message, u) == message # {}

\* The test of the OPEN_MESSAGE and REPLY branches: the message exists and the
\* acting user is its recipient
MessageAvailable(message, u) ==
    message # {} /\ TheOne(message).recipient_user_id = u

\* callback_query_handler: the token is consumed first, then the user is looked
\* up, then the branch of the token's type runs
callback_query_handler(u, token_str) ==
    LET c == ConsumeToken(callback_tokens, token_str, now)
        say(result) == last' = Reply("callback", u, result)
        onlyToken == /\ callback_tokens' = c.store
                     /\ UNCHANGED <<now, dbVars, token_id_seq, procs, calls, histVars>>
    IN
    IF c.record = {} THEN say("button_invalid") /\ onlyToken
    ELSE IF UserRepoGet(u) = {} THEN say("user_not_found") /\ onlyToken
    ELSE
    LET token == TheOne(c.record)
        extra == IF token.extra_data = {} THEN NoExtra ELSE TheOne(token.extra_data)
        message == MessageRepoGetById(messages, token.entity_id)
    IN
    CASE token.type = "PAGINATE" ->
           /\ \E r \in render_messages_page(u, c.store, token_id_seq,
                          PaginateArgs(extra).offset, PaginateArgs(extra).limit,
                          PaginateArgs(extra).status, PaginateArgs(extra).link_slug,
                          PaginateArgs(extra).from_date) :
                 /\ r.seq <= MaxSysTokens
                 /\ callback_tokens' = r.store
                 /\ token_id_seq' = r.seq
                 /\ say(r.result)
           /\ UNCHANGED <<now, dbVars, procs, calls, histVars>>
      [] token.type = "LINK_CREATE" ->
           /\ dialog_states' = SetState(u, "await_link_label", NoData)
           /\ callback_tokens' = c.store
           /\ say("enter_link_label")
           /\ UNCHANGED <<now, users, links, messages, threads, thread_messages,
                          token_id_seq, procs, calls, histVars>>
      [] token.type = "LINK_TOGGLE" ->
           LET link == UNION {LinkRepoGetById(id) : id \in extra.link_id} IN
           IF extra.link_id = {} \/ link = {} \/ TheOne(link).owner_user_id # u
           THEN say("link_not_found") /\ onlyToken
           \* link_repo.set_active: the repository has no such method
           ELSE say("AttributeError") /\ onlyToken
      [] token.type = "OPEN_MESSAGE" ->
           IF ~MessageAvailable(message, u)
           THEN say("message_unavailable") /\ onlyToken
           ELSE /\ messages' = MessageRepoMarkRead(messages, TheOne(message).id)
                /\ \E r \in CreateTokens(c.store, token_id_seq,
                                         OpenMessageButtons(TheOne(message)), now) :
                      /\ r.seq <= MaxSysTokens
                      /\ callback_tokens' = r.store
                      /\ token_id_seq' = r.seq
                      /\ say(IF r.err = "" THEN "message_opened" ELSE r.err)
                /\ UNCHANGED <<now, users, links, threads, thread_messages,
                               dialog_states, procs, calls, histVars>>
      [] token.type = "REPLY" ->
           IF ~MessageAvailable(message, u)
           THEN say("message_unavailable") /\ onlyToken
           ELSE /\ dialog_states' = SetState(u, "await_reply_text",
                        [NoData EXCEPT !.reply_to_message_id = {TheOne(message).id}])
                /\ callback_tokens' = c.store
                /\ say("enter_reply_text")
                /\ UNCHANGED <<now, users, links, messages, threads, thread_messages,
                               token_id_seq, procs, calls, histVars>>
      [] token.type = "REVEAL_AUTHOR" ->
           LET r == RevealAuthor(token.entity_id) IN
           /\ messages' = r.messages
           /\ callback_tokens' = c.store
           /\ say(CASE r.err = "PermissionError" -> "reveal_denied"
                    [] r.err = "ValueError" -> "message_not_found"
                    [] r.err = "" /\ r.sender = {} -> "author_anonymous"
                    [] OTHER -> "author_shown")
           /\ UNCHANGED <<now, users, links, threads, thread_messages, dialog_states,
                          token_id_seq, procs, calls, histVars>>
      [] OTHER -> say("unknown_action") /\ onlyToken

\* The database when the bot starts: the seeded links and their owners
Init ==
    /\ now = 0
    /\ links \in SeedLinks
    /\ users = {l.owner_user_id : l \in Range(links)}
    /\ messages = <<>>
    /\ threads = <<>>
    /\ thread_messages = <<>>
    /\ dialog_states = [u \in Users |-> {}]
    /\ callback_tokens = {}
    /\ token_id_seq = 0
    /\ procs = [p \in Procs |-> IdleProc]
    /\ calls = [p \in Procs |-> IdleCall]
    /\ issued = {}
    /\ redeemed = {}
    /\ deleted = {}
    /\ last = NoLast

\* The texts users type
TriedTexts == {REVEAL_ALLOW, REVEAL_DENY, LongText}
\* The /messages filters users give: none, or a link slug
TriedLinkFilters == {{}, {1}}

Next ==
    \/ \E u \in Users, arg \in {0} \cup Slugs : start_handler(u, arg)
    \/ \E u \in Users, text \in TriedTexts : text_message_handler(u, text)
    \/ \E u \in Users : non_text_handler(u)
    \/ \E u \in Users : stats_handler(u)
    \/ \E u \in Users, f \in TriedLinkFilters : messages_handler(u, {}, f, {})
    \/ \E u \in Users : links_handler(u)
    \/ \E u \in Users, token_str \in TokenStrings : callback_query_handler(u, token_str)
    \/ now < MaxSysTime /\ Tick

Spec == Init /\ [][Next]_vars

\* ----------------------- the dialogue handlers over every session a user
\* can be in

\* The rows the callback branches store: LINK_CREATE (no payload) and REPLY
\* (the message replied to)
CallbackRows ==
    {[state |-> "await_link_label", data |-> NoData],
     [state |-> "await_reply_text", data |-> [NoData EXCEPT !.reply_to_message_id = {1}]]}

\* state_store.set_state as the callback branches call it
CallbackSetState(u, row) ==
    /\ dialog_states' = SetState(u, row.state, row.data)
    /\ UNCHANGED <<now, users, links, messages, threads, thread_messages, tokVars,
                   procs, calls, histVars, last>>

DlgInit ==
    /\ now = 0
    /\ users = Users
    /\ links \in SeedLinksAny
    /\ messages = <<>>
    /\ threads = <<>>
    /\ thread_messages = <<>>
    /\ dialog_states = [u \in Users |-> {}]
    /\ callback_tokens = {}
    /\ token_id_seq = 0
    /\ procs = [p \in Procs |-> IdleProc]
    /\ calls = [p \in Procs |-> IdleCall]
    /\ issued = {}
    /\ redeemed = {}
    /\ deleted = {}
    /\ last = NoLast

\* The texts users type in the dialogue
DlgTexts == {REVEAL_ALLOW, REVEAL_DENY}

DlgNext ==
    \/ \E u \in Users, arg \in {0} \cup Slugs : start_handler(u, arg)
    \/ \E u \in Users, text \in DlgTexts : text_message_handler(u, text)
    \/ \E u \in Users, row \in CallbackRows : CallbackSetState(u, row)

SpecDlg == DlgInit /\ [][DlgNext]_vars

\* ----------------------- the callback buttons of a message that was sent

\* The database right after handle_message_text stored user 2's message on the
\* seeded link: the message, with or without leave to reveal its author, and
\* the OPEN_MESSAGE token of the notification; both sessions are clear
CbInit ==
    /\ now = 0
    /\ users = Users
    /\ links \in SeedLinks
    /\ \E r \in BOOLEAN : messages = MessageRepoCreate(<<>>, 1, 1, {2}, "hello", r, 0)
    /\ threads = <<>>
    /\ thread_messages = <<>>
    /\ dialog_states = [u \in Users |-> {}]
    /\ callback_tokens = TokenRepoCreate({}, 0, 1, "OPEN_MESSAGE", 1, {},
                                         ExpiresAt(0, TtlNotify)).store
    /\ token_id_seq = 1
    /\ procs = [p \in Procs |-> IdleProc]
    /\ calls = [p \in Procs |-> IdleCall]
    /\ issued = {}
    /\ redeemed = {}
    /\ deleted = {}
    /\ last = NoLast

\* Time passes between two updates: longer than the buttons of a message list
\* or of an opened message live
CbTick ==
    /\ now < MaxCbTicks * (TtlDefault + TtlPaginate)
    /\ now' = now + TtlDefault + TtlPaginate
    /\ UNCHANGED <<dbVars, tokVars, procs, calls, histVars, last>>

CbNext ==
    \/ \E u \in Users : start_handler(u, 1)
    \/ \E u \in Users : messages_handler(u, {}, {}, {})
    \/ \E u \in Users, token_str \in TokenStrings : callback_query_handler(u, token_str)
    \/ CbTick

SpecCb == CbInit /\ [][CbNext]_vars

\* ----------------------- the toggle button of the links list

\* A tokens table that holds the LINK_TOGGLE row render_links_list asks for on
\* the seeded link (a database whose callback_token_type has that label; the
\* type the migration creates rejects the insert)
ToggleInit ==
    /\ now = 0
    /\ users = Users
    /\ links \in SeedLinksAny
    /\ messages = <<>>
    /\ threads = <<>>
    /\ thread_messages = <<>>
    /\ dialog_states = [u \in Users |-> {}]
    /\ callback_tokens = {[id |-> 1, token |-> 1, type |-> "LINK_TOGGLE", entity_id |-> 1,
                          extra_data |-> {[NoExtra EXCEPT !.link_id = {1}]},
                          expires_at |-> ExpiresAt(0, TtlDefault)]}
    /\ token_id_seq = 1
    /\ procs = [p \in Procs |-> IdleProc]
    /\ calls = [p \in Procs |-> IdleCall]
    /\ issued = {}
    /\ redeemed = {}
    /\ deleted = {}
    /\ last = NoLast

ToggleNext ==
    \/ \E u \in Users, arg \in {0} \cup Slugs : start_handler(u, arg)
    \/ \E u \in Users : links_handler(u)
    \/ \E u \in Users, token_str \in TokenStrings : callback_query_handler(u, token_str)
    \/ CbTick

SpecToggle == ToggleInit /\ [][ToggleNext]_vars

\* ----------------------- the pages of the message list

\* An inbox of k messages of user 2 to user 1 on the seeded link, stored one
\* after the other
RECURSIVE SeedInbox(_)
SeedInbox(k) ==
    IF k = 0 THEN <<>>
    ELSE MessageRepoCreate(SeedInbox(k - 1), 1, 1, {2}, "hello", FALSE, k - 1)

PageInit ==
    /\ now = MaxPageMessages
    /\ users = Users
    /\ links = <<NewLink(1, 1, 1, "L1", {})>>
    /\ \E k \in 0..MaxPageMessages : messages = SeedInbox(k)
    /\ threads = <<>>
    /\ thread_messages = <<>>
    /\ dialog_states = [u \in Users |-> {}]
    /\ callback_tokens = {}
    /\ token_id_seq = 0
    /\ procs = [p \in Procs |-> IdleProc]
    /\ calls = [p \in Procs |-> IdleCall]
    /\ issued = {}
    /\ redeemed = {}
    /\ deleted = {}
    /\ last = NoLast

\* render_messages_page called with an offset and a page size, no filters
PageRender(u, offset, limit) ==
    /\ \E r \in render_messages_page(u, callback_tokens, token_id_seq, offset, limit,
                                     {}, {}, {}) :
          /\ r.seq <= MaxSysTokens
          /\ callback_tokens' = r.store
          /\ token_id_seq' = r.seq
          /\ last' = Reply("messages", u, r.result)
    /\ UNCHANGED <<now, dbVars, procs, calls, histVars>>

PageNext ==
    \/ \E u \in Users, offset \in 0..MaxPageMessages, limit \in 1..MaxPageSize :
          PageRender(u, offset, limit)
    \/ \E u \in Users, token_str \in TokenStrings : callback_query_handler(u, token_str)

SpecPage == PageInit /\ [][PageNext]_vars

\* ----------------------- the status of a stored message

\* The database with user 2's message on the seeded link and the OPEN_MESSAGE
\* token of its notification. The message's status is any label of
\* message_status: the repositories write NEW and READ only, DELIVERED and
\* BLOCKED are rows written straight to the table
StatusInit ==
    /\ now = 0
    /\ users = Users
    /\ links \in SeedLinks
    /\ \E r \in BOOLEAN, st \in MessageStatus :
          messages =
              <<[MessageRepoCreate(<<>>, 1, 1, {2}, "hello", r, 0)[1] EXCEPT !.status = st]>>
    /\ threads = <<>>
    /\ thread_messages = <<>>
    /\ dialog_states = [u \in Users |-> {}]
    /\ callback_tokens = TokenRepoCreate({}, 0, 1, "OPEN_MESSAGE", 1, {},
                                         ExpiresAt(0, TtlNotify)).store
    /\ token_id_seq = 1
    /\ procs = [p \in Procs |-> IdleProc]
    /\ calls = [p \in Procs |-> IdleCall]
    /\ issued = {}
    /\ redeemed = {}
    /\ deleted = {}
    /\ last = NoLast

StatusNext ==
    \/ \E u \in Users : messages_handler(u, {}, {}, {})
    \/ \E u \in Users, token_str \in TokenStrings : callback_query_handler(u, token_str)
    \/ \E u \in TriedRepliers : SvcReply(1, u, "reply")

SpecStatus == StatusInit /\ [][StatusNext]_vars

\* ----------------------- the token service called with every action type

\* The entity ids passed to create_token: none (0) and a row id
TypesEntityIds == {0, 1}

\* The payloads passed to create_token: none, and a dict
TypesExtras == {{}, {[NoExtra EXCEPT !.link_id = {1}]}}

\* create_token(type, entity_id, extra_data, ttl_seconds) by one caller
TypesIssue(type, entity_id, extra_data, ttl_seconds) ==
    /\ token_id_seq < MaxTokenId
    /\ \E c \in CreateTokens(callback_tokens, token_id_seq,
                   <<TokenRequest(type, entity_id, extra_data, ttl_seconds)>>, now) :
          /\ callback_tokens' = c.store
          /\ token_id_seq' = c.seq
          /\ issued' = issued \cup (c.store \ callback_tokens)
          /\ last' = Answer("create_token", 0, 0, entity_id, type, FALSE, c.err)
    /\ UNCHANGED <<now, dbVars, procs, calls, redeemed, deleted>>

\* consume_token(token) by one caller; message_id of the answer is the id of
\* the record returned, 0 for None
TypesConsume(token) ==
    /\ LET c == ConsumeToken(callback_tokens, token, now) IN
       /\ callback_tokens' = c.store
       /\ redeemed' = redeemed \cup {r.id : r \in c.record}
       /\ deleted' = deleted \cup {r.token : r \in callback_tokens \ c.store}
       /\ last' = Answer("consume_token", 0, 0,
                         IF c.record = {} THEN 0 ELSE TheOne(c.record).id, "", FALSE,
                         IF c.record = {} THEN "None" ELSE "record")
    /\ UNCHANGED <<now, dbVars, token_id_seq, procs, calls, issued>>

TypesNext ==
    \/ \E type \in CallbackTokenType, entity_id \in TypesEntityIds, extra_data \in TypesExtras,
          ttl_seconds \in TriedTtls :
          TypesIssue(type, entity_id, extra_data, ttl_seconds)
    \/ \E token \in TokenStrings : TypesConsume(token)
    \/ Tick

SpecTypes == TokInit /\ [][TypesNext]_vars

\* ----------------------- the filters of the message list

\* The filters tried: no status or NEW, no link or the seeded link, no lower
\* bound or the time the newest message was stored
TriedStatusFilters == {{}, {"NEW"}}
TriedSlugFilters == {{}, {1}}
TriedFromDates == {{}, {MaxPageMessages - 1}}

\* The inbox of user 1 filled to MaxPageMessages, nothing else stored
FilterInit ==
    /\ now = MaxPageMessages
    /\ users = Users
    /\ links = <<NewLink(1, 1, 1, "L1", {})>>
    /\ messages = SeedInbox(MaxPageMessages)
    /\ threads = <<>>
    /\ thread_messages = <<>>
    /\ dialog_states = [u \in Users |-> {}]
    /\ callback_tokens = {}
    /\ token_id_seq = 0
    /\ procs = [p \in Procs |-> IdleProc]
    /\ calls = [p \in Procs |-> IdleCall]
    /\ issued = {}
    /\ redeemed = {}
    /\ deleted = {}
    /\ last = NoLast

\* render_messages_page called with an offset, a page size and filters
FilterRender(u, offset, limit, status, link_slug, from_date) ==
    /\ \E r \in render_messages_page(u, callback_tokens, token_id_seq, offset, limit,
                                     status, link_slug, from_date) :
          /\ r.seq <= MaxSysTokens
          /\ callback_tokens' = r.store
          /\ token_id_seq' = r.seq
          /\ last' = Reply("messages", u, r.result)
    /\ UNCHANGED <<now, dbVars, procs, calls, histVars>>

FilterNext ==
    \/ \E u \in Users, offset \in 0..MaxPageMessages, limit \in 1..MaxPageSize,
          status \in TriedStatusFilters, link_slug \in TriedSlugFilters,
          from_date \in TriedFromDates :
          FilterRender(u, offset, limit, status, link_slug, from_date)
    \/ \E u \in Users, token_str \in TokenStrings : callback_query_handler(u, token_str)

SpecFilter == FilterInit /\ [][FilterNext]_vars

\* ----------------------- the link wizard

\* A tokens table that holds two LINK_CREATE rows as render_links_list asks
\* for them (a database whose callback_token_type has that label; the type the
\* migration creates rejects the insert), and no link yet
WizardInit ==
    /\ now = 0
    /\ users = Users
    /\ links = <<>>
    /\ messages = <<>>
    /\ threads = <<>>
    /\ thread_messages = <<>>
    /\ dialog_states = [u \in Users |-> {}]
    /\ callback_tokens =
          {[id |-> i, token |-> i, type |-> "LINK_CREATE", entity_id |-> 0,
            extra_data |-> {NoExtra}, expires_at |-> ExpiresAt(0, TtlPaginate)] :
           i \in TokenStrings}
    /\ token_id_seq = NumTokenStrings
    /\ procs = [p \in Procs |-> IdleProc]
    /\ calls = [p \in Procs |-> IdleCall]
    /\ issued = {}
    /\ redeemed = {}
    /\ deleted = {}
    /\ last = NoLast

\* The texts typed in the wizard: an ordinary one, the same with spaces around
\* it, a blank one and the skip sentinel
WizardTexts == {"hello", PaddedText, BlankText, SkipText}

WizardNext ==
    \/ \E u \in Users : start_handler(u, 0)
    \/ \E u \in Users, text \in WizardTexts : text_message_handler(u, text)
    \/ \E u \in Users, token_str \in TokenStrings : callback_query_handler(u, token_str)

SpecWizard == WizardInit /\ [][WizardNext]_vars

\* ----------------------- a text turn, one transaction at a time
\* text_message_handler reads the session in one database session and
\* handle_message_text writes in another one, every repository call committing
\* on its own; nothing locks the dialog_states row. Here two workers (two bot
\* processes on one database, or an Application built with concurrent_updates)
\* handle text events, each at its own pace.

\* A worker handling a text event: where it stands, whose text it handles, and
\* the session state and payload it read
IdleTurn ==
    [pc |-> "idle", user |-> 0, text |-> "", state |-> "", data |-> NoData,
     message |-> {}]

\* text_message_handler up to the end of its `async with`: the user row is
\* upserted and the session is read
TurnRead(p, u, text) ==
    /\ calls[p].pc = "idle"
    /\ users' = UpsertUser(u)
    /\ LET st == GetState(u) IN
       calls' = [calls EXCEPT ![p] =
          [IdleTurn EXCEPT !.pc = "dispatch", !.user = u, !.text = text,
                           !.state = IF st = {} THEN "" ELSE TheOne(st).state,
                           !.data = IF st = {} THEN NoData ELSE TheOne(st).data]]
    /\ UNCHANGED <<now, links, messages, threads, thread_messages, dialog_states,
                   tokVars, procs, histVars, last>>

\* text_message_handler's dispatch on the state it read, for the sessions of
\* this specification (none, await_message_text), and handle_message_text up
\* to and including create_token. The ValueError of the send service is not
\* caught: the turn ends with the exception and nothing is answered.
TurnSend(p) ==
    LET u == calls[p].user
        text == calls[p].text
        state_data == calls[p].data
    IN
    /\ calls[p].pc = "dispatch"
    /\ IF calls[p].state # "await_message_text"
       THEN /\ last' = Reply("text", u, "send_prompt")
            /\ calls' = [calls EXCEPT ![p] = IdleTurn]
            /\ UNCHANGED <<messages, dialog_states, tokVars>>
       ELSE IF TextLen(text) < 1 \/ TextLen(text) > MaxTextLen
       THEN /\ last' = Reply("text", u, "message_too_short")
            /\ calls' = [calls EXCEPT ![p] = IdleTurn]
            /\ UNCHANGED <<messages, dialog_states, tokVars>>
       ELSE IF state_data.pending_link_slug = {} \/ state_data.pending_reveal_allowed = {}
       THEN /\ dialog_states' = ClearState(u)
            /\ last' = Reply("text", u, "session_expired")
            /\ calls' = [calls EXCEPT ![p] = IdleTurn]
            /\ UNCHANGED <<messages, tokVars>>
       ELSE
       LET r == SendAnonymousMessage(TheOne(state_data.pending_link_slug), text,
                                     TheOne(state_data.pending_reveal_allowed), {u})
       IN
       IF r.err # ""
       THEN /\ last' = Reply("text", u, r.err)
            /\ calls' = [calls EXCEPT ![p] = IdleTurn]
            /\ UNCHANGED <<messages, dialog_states, tokVars>>
       ELSE /\ Len(messages) < MaxMessages
            /\ token_id_seq < MaxSysTokens
            /\ messages' = r.messages
            /\ \E c \in CreateTokens(callback_tokens, token_id_seq,
                           <<TokenRequest("OPEN_MESSAGE", TheOne(r.message).id, {},
                                          TtlNotify)>>, now) :
                  /\ callback_tokens' = c.store
                  /\ token_id_seq' = c.seq
            /\ calls' = [calls EXCEPT ![p].pc = "clear", ![p].message = r.message]
            /\ UNCHANGED <<dialog_states, last>>
    /\ UNCHANGED <<now, users, links, threads, thread_messages, procs, histVars>>

\* handle_message_text: state_store.clear_state, then the answer to the sender
TurnClear(p) ==
    /\ calls[p].pc = "clear"
    /\ dialog_states' = ClearState(calls[p].user)
    /\ last' = Reply("text", calls[p].user, "message_sent")
    /\ calls' = [calls EXCEPT ![p].pc = "notify"]
    /\ UNCHANGED <<now, users, links, messages, threads, thread_messages, tokVars,
                   procs, histVars>>

\* What a push that was delivered, and one that raised, leave behind: the
\* exception is caught and logged, the handler returns
PushOutcome(delivered) == IF delivered THEN "notified" ELSE "push_failed_logged"

\* Mutant: a push that raised takes the message's OPEN_MESSAGE token back
TurnNotify_Undo(p, delivered) ==
    /\ calls[p].pc = "notify"
    /\ last' = Reply("notify", TheOne(calls[p].message).recipient_user_id,
                     PushOutcome(delivered))
    /\ calls' = [calls EXCEPT ![p] = IdleTurn]
    /\ callback_tokens' =
          IF delivered THEN callback_tokens
          ELSE {tok \in callback_tokens : tok.entity_id # TheOne(calls[p].message).id}
    /\ UNCHANGED <<now, dbVars, token_id_seq, procs, histVars>>

\* handle_message_text: context.bot.send_message to the recipient inside
\* try/except Exception; the recipient row always exists (users.id is not
\* deleted anywhere). The handler ends here either way.
TurnNotify(p, delivered) ==
    /\ calls[p].pc = "notify"
    /\ last' = Reply("notify", TheOne(calls[p].message).recipient_user_id,
                     PushOutcome(delivered))
    /\ calls' = [calls EXCEPT ![p] = IdleTurn]
    /\ UNCHANGED <<now, dbVars, tokVars, procs, histVars>>

\* The texts typed in a turn: an ordinary one and one that is too long
TurnTexts == {"hello", LongText}

\* The database after user 2 opened the deep link of the seeded link and chose
\* whether the author may be revealed (start_handler, handle_reveal_choice):
\* user 2's session is await_message_text. The link may have been switched
\* off since (a row written straight to the table).
TurnInit ==
    /\ now = 0
    /\ users = Users
    /\ links \in SeedLinks
    /\ messages = <<>>
    /\ threads = <<>>
    /\ thread_messages = <<>>
    /\ \E r \in BOOLEAN :
          dialog_states = [u \in Users |->
              IF u = 2
              THEN {[state |-> "await_message_text",
                     data |-> [NoData EXCEPT !.pending_link_slug = {1},
                                             !.pending_reveal_allowed = {r}]]}
              ELSE {}]
    /\ callback_tokens = {}
    /\ token_id_seq = 0
    /\ procs = [p \in Procs |-> IdleProc]
    /\ calls = [p \in Procs |-> IdleTurn]
    /\ issued = {}
    /\ redeemed = {}
    /\ deleted = {}
    /\ last = NoLast

TurnStep(p) ==
    \/ \E u \in Users, text \in TurnTexts : TurnRead(p, u, text)
    \/ TurnSend(p)
    \/ TurnClear(p)
    \/ \E delivered \in BOOLEAN : TurnNotify(p, delivered)

TurnNext == \E p \in Procs : TurnStep(p)

SpecTurn == TurnInit /\ [][TurnNext]_vars

\* ================================================ claims on the token service

\* p's call returns in this step
Returns(p) == procs[p].pc # "done" /\ procs'[p].pc = "done"

\* C1 (as claimed): of two concurrent consume(token, one_time=true) calls for the
\* same live, unexpired row at most one returns the record.
C1_AtMostOneConsumeReturns ==
    \A p, q \in Procs :
        (/\ p # q
         /\ procs[p].pc = "done" /\ procs[p].op = "consume" /\ procs[p].one_time
         /\ procs[q].pc = "done" /\ procs[q].op = "consume" /\ procs[q].one_time
         /\ procs[p].ret # {} /\ procs[q].ret # {})
        => {r.id : r \in procs[p].ret} # {r.id : r \in procs[q].ret}

\* An issued row with this token string that no consume has returned yet and
\* that the call at call_time may still redeem under the given expiry rule
Redeemable(token, call_time, Live(_, _)) ==
    \E i \in issued : i.token = token /\ i.id \notin redeemed /\ Live(i, call_time)

LiveUntilExpiry(i, t) == \A e \in i.expires_at : t <= e
LiveBeforeExpiry(i, t) == \A e \in i.expires_at : t < e

ConsumeReturnsIff(Live(_, _)) ==
    \A p \in Procs :
        (Returns(p) /\ procs'[p].op = "consume" /\ procs'[p].one_time)
        => /\ procs'[p].ret # {}
                <=> Redeemable(procs'[p].token, procs'[p].call_time, Live)
           /\ \A r \in procs'[p].ret :
                r \in issued /\ r.token = procs'[p].token /\ r.id \notin redeemed

\* C2 (as claimed): a sequential one-time consume returns the record iff it is
\* called before the expiry instant and no earlier consume returned it; at or
\* after expiry it returns not-found.
C2_ConsumeIffBeforeExpiry == [][ConsumeReturnsIff(LiveBeforeExpiry)]_vars

\* C2 (amended): a sequential one-time consume returns the record iff it is
\* called no later than the expiry instant (expires_at < now is false) and no
\* earlier consume returned it; strictly after expiry, and after a successful
\* consume, it returns not-found as for an unknown string.
C2_ConsumeIffNotAfterExpiry == [][ConsumeReturnsIff(LiveUntilExpiry)]_vars

\* C2 witness: a consume called exactly at the expiry instant returned the record
C2_Witness ==
    \E p \in Procs :
        /\ procs[p].pc = "done" /\ procs[p].op = "consume"
        /\ \E r \in procs[p].ret : r.expires_at = {procs[p].call_time}

\* C3 (as claimed): once a token string was consumed or expired (its row was
\* deleted), no later consume of that string returns a record and issue never
\* hands that string out again.
C3_NoTokenStringReuse ==
    [][\A p \in Procs :
          (Returns(p) /\ procs'[p].ret # {}) => procs'[p].token \notin deleted]_vars

\* C4: the store never holds two rows with the same token string, and an issue
\* that returns a string returns one that only its own row carries, also when
\* two issue calls run concurrently and draw the same string.
C4_UniqueTokenStrings ==
    /\ [](\A r1, r2 \in callback_tokens : r1.token = r2.token => r1 = r2)
    /\ [][\A p \in Procs :
            (Returns(p) /\ procs'[p].op = "create" /\ procs'[p].ret # {})
            => \A r \in callback_tokens' :
                  r.token = procs'[p].token => r \in procs'[p].ret]_vars

\* C4 witness: two concurrent issue calls drew the same string; the unique index
\* refused the second INSERT
C4_Witness ==
    \E p, q \in Procs :
        /\ procs[p].pc = "done" /\ procs[p].op = "create" /\ procs[p].err = "IntegrityError"
        /\ procs[q].op = "create" /\ procs[q].ret # {}
        /\ \A r \in procs[q].ret : r.token = procs[p].token


\* ============================================ claims on the domain services

\* C5: a RevealAuthor call on a stored message whose is_reveal_allowed is false
\* raises PermissionError and changes no stored field.
C5_RevealDeniedFails ==
    [][\A mid \in DOMAIN messages :
          (/\ ~messages[mid].is_reveal_allowed
           /\ last'.op = "reveal"
           /\ last'.message_id = mid)
          => (/\ last'.result = "PermissionError"
              /\ UNCHANGED <<dbVars, tokVars>>)]_vars

C5_Witness ==
    /\ last.op = "reveal"
    /\ last.result = "PermissionError"
    /\ \E mid \in DOMAIN messages :
          /\ mid = last.message_id
          /\ ~messages[mid].is_reveal_allowed
          /\ ~messages[mid].is_revealed

\* C6: in every reachable state of the bot, a message with is_revealed true
\* has is_reveal_allowed true.
C6_RevealedOnlyIfAllowed ==
    \A m \in Range(messages) : m.is_revealed => m.is_reveal_allowed

C6_Witness ==
    /\ last.op = "callback"
    /\ last.result = "author_shown"
    /\ \E m \in Range(messages) : m.is_revealed /\ m.is_reveal_allowed

\* C7: a message whose is_revealed is true keeps it true in every later state,
\* and a RevealAuthor call on a reveal-allowed message that is already revealed
\* returns without an exception.
C7_RevealedStaysRevealed ==
    [][\A mid \in DOMAIN messages :
          /\ messages[mid].is_revealed
                => (mid \in DOMAIN messages' /\ messages'[mid].is_revealed)
          /\ (/\ messages[mid].is_revealed
              /\ messages[mid].is_reveal_allowed
              /\ last'.op = "reveal"
              /\ last'.message_id = mid)
             => last'.result = ""]_vars

C7_Witness ==
    /\ last.op = "reveal"
    /\ last.flag
    /\ last.result = ""
    /\ \E mid \in DOMAIN messages : mid = last.message_id /\ messages[mid].is_revealed

\* C8: a SendAnonymousMessage call whose slug names no link, or a link with
\* is_active false, raises the not-found error and leaves the message store as
\* it was.
C8_SendToUnusableLinkFails ==
    [][\A slug \in Slugs :
          (/\ ~\E l \in Range(links) : l.slug = slug /\ l.is_active
           /\ last'.op = "send"
           /\ last'.slug = slug)
          => (last'.result = "ValueError" /\ messages' = messages)]_vars

C8_Witness ==
    /\ last.op = "send"
    /\ last.result = "ValueError"
    /\ \E l \in Range(links) : l.slug = last.slug /\ ~l.is_active

\* C9: a SendAnonymousMessage call on an active link adds exactly one message:
\* recipient the link's owner, text, sender and is_reveal_allowed as given,
\* status NEW, is_revealed false; the messages stored before are untouched.
C9_SendCreatesOneMessage ==
    [][\A l \in Range(links) :
          (/\ l.is_active
           /\ l.deleted_at = {}
           /\ last'.op = "send"
           /\ last'.slug = l.slug)
          => (/\ last'.result = ""
              /\ Len(messages') = Len(messages) + 1
              /\ SubSeq(messages', 1, Len(messages)) = messages
              /\ LET m == messages'[Len(messages')] IN
                    /\ m.link_id = l.id
                    /\ m.recipient_user_id = l.owner_user_id
                    /\ m.text = last'.text
                    /\ m.sender_user_id = (IF last'.user = 0 THEN {} ELSE {last'.user})
                    /\ m.is_reveal_allowed = last'.flag
                    /\ m.status = "NEW"
                    /\ m.is_revealed = FALSE)]_vars

C9_Witness ==
    /\ last.op = "send"
    /\ last.result = ""
    /\ last.user # 0
    /\ last.flag
    /\ Len(messages) >= 1
    /\ messages[Len(messages)].text = last.text
    /\ messages[Len(messages)].status = "NEW"

ThreadsOf(thrs, message_id) == {t \in Range(thrs) : t.root_message_id = message_id}

\* C10: ReplyToMessage calls made one after another for the same root message
\* all use one Thread (exactly one Thread exists for the root after each call,
\* and a Thread that existed is the one used), each call appends exactly one
\* ThreadMessage, and the root message's status is READ afterwards.
C10_SequentialRepliesShareThread ==
    [][\A mid \in DOMAIN messages :
          (last'.op = "reply" /\ last'.message_id = mid)
          => (/\ last'.result = ""
              /\ Cardinality(ThreadsOf(threads', mid)) = 1
              /\ ThreadsOf(threads, mid) # {} => threads' = threads
              /\ Len(thread_messages') = Len(thread_messages) + 1
              /\ SubSeq(thread_messages', 1, Len(thread_messages)) = thread_messages
              /\ \E t \in ThreadsOf(threads', mid) :
                    thread_messages'[Len(thread_messages')].thread_id = t.id
              /\ messages'[mid].status = "READ")]_vars

C10_Witness ==
    /\ last.op = "reply"
    /\ last.result = ""
    /\ \E i, j \in DOMAIN thread_messages :
          /\ i # j
          /\ thread_messages[i].thread_id = thread_messages[j].thread_id
          /\ \E t \in ThreadsOf(threads, last.message_id) :
                t.id = thread_messages[i].thread_id
    /\ Cardinality(ThreadsOf(threads, last.message_id)) = 1
    /\ messages[last.message_id].status = "READ"


\* C11: at most one Thread exists per root message in every reachable state,
\* also when two ReplyToMessage calls for the same root run concurrently, and
\* every call on a stored root message ends with its reply appended to that
\* one thread.
C11_ConcurrentRepliesShareThread ==
    /\ \A mid \in DOMAIN messages : Cardinality(ThreadsOf(threads, mid)) <= 1
    /\ \A p \in Procs :
          (calls[p].pc = "done" /\ calls[p].op = "reply" /\ calls[p].message # {})
          => /\ calls[p].err = ""
             /\ \E tm \in calls[p].ret :
                   /\ tm \in Range(thread_messages)
                   /\ \E t \in ThreadsOf(threads, calls[p].message_id) :
                         tm.thread_id = t.id

\* C12: in every reachable state, between the committed steps of a reply and
\* after a crash between them too, a Thread exists for a root message if and
\* only if a ThreadMessage has been appended for that root.
C12_ThreadIffReply ==
    \A mid \in DOMAIN messages :
        ThreadsOf(threads, mid) # {}
        <=> \E tm \in Range(thread_messages) :
               \E t \in ThreadsOf(threads, mid) : tm.thread_id = t.id


\* C13: the ThreadMessage a ReplyToMessage call appends is addressed to the
\* root message's sender when one is recorded and to its recipient otherwise,
\* whoever replies; its from-user is the replier passed in.
C13_ReplyAddressedToSenderOrRecipient ==
    [][\A p \in Procs :
          (calls[p].pc = "reply_append" /\ calls'[p].pc = "reply_mark_read")
          => /\ Len(thread_messages') = Len(thread_messages) + 1
             /\ LET tm == thread_messages'[Len(thread_messages')]
                    root == messages[calls[p].message_id]
                IN /\ \E t \in ThreadsOf(threads, root.id) : tm.thread_id = t.id
                   /\ tm.from_user_id = calls[p].from_user_id
                   /\ tm.to_user_id = (IF root.sender_user_id # {}
                                       THEN TheOne(root.sender_user_id)
                                       ELSE root.recipient_user_id)]_vars

C13_Witness ==
    /\ \E tm \in Range(thread_messages), m \in Range(messages) :
          /\ m.sender_user_id = {}
          /\ tm.to_user_id = m.recipient_user_id
          /\ tm.from_user_id # m.recipient_user_id
          /\ \E t \in ThreadsOf(threads, m.id) : tm.thread_id = t.id


\* C14: set_state followed at once by get_state returns exactly the tag and
\* payload written, for every user, tag and payload; clear_state followed by
\* get_state returns no state, whether or not a state existed.
C14_SessionRoundTrip ==
    [][/\ \A u \in Users, state \in WizardStates, data \in TriedPayloads :
             SessSet(u, state, data)
             => get_state(u)' = [state |-> {state}, data |-> data]
       /\ \A u \in Users :
             SessClear(u) => get_state(u)' = [state |-> {}, data |-> NoData]]_vars

C14_Witness ==
    /\ last.op = "clear_state"
    /\ last.flag
    /\ get_state(last.user) = [state |-> {}, data |-> NoData]
    /\ \E u \in Users : get_state(u).state # {} /\ get_state(u).data # NoData

\* C15: there is at most one session record per user; a set_state leaves the
\* user with exactly the new tag and payload (no key of the old payload
\* survives unless the new payload has it) and leaves every other user's
\* session unchanged.
C15_OneSessionPayloadReplaced ==
    /\ [](\A u \in Users : Cardinality(dialog_states[u]) <= 1)
    /\ [][\A u \in Users, state \in WizardStates, data \in TriedPayloads :
             SessSet(u, state, data)
             => /\ \A row \in dialog_states'[u] :
                      /\ row.state = state
                      /\ \A k \in DOMAIN NoData : row.data[k] = data[k]
                /\ dialog_states'[u] # {}
                /\ \A v \in Users \ {u} : dialog_states'[v] = dialog_states[v]]_vars

C15_Witness ==
    /\ last.op = "set_state"
    /\ last.flag
    /\ \E row \in dialog_states[last.user] : row.state = last.text
    /\ \E v \in Users \ {last.user} : dialog_states[v] # {}


\* C16: no two links carry the same slug, also when two CreateLink calls run
\* concurrently and draw the same slug; a drawn slug that exists on any link is
\* discarded and drawn again, and a link is persisted only with a slug no link
\* carried.
C16_UniqueSlugs ==
    /\ [](\A i, j \in DOMAIN links : links[i].slug = links[j].slug => i = j)
    /\ [][/\ \A p \in Procs :
                (/\ calls[p].pc = "link_check"
                 /\ calls'[p] # calls[p]
                 /\ \E l \in Range(links) : l.slug = calls[p].slug)
                => calls'[p].pc = "link_check"
          /\ links' # links
                => /\ Len(links') = Len(links) + 1
                   /\ SubSeq(links', 1, Len(links)) = links
                   /\ \A l \in Range(links) : l.slug # links'[Len(links')].slug]_vars

C16_Witness ==
    /\ \E p, q \in Procs :
          /\ calls[p].pc = "done" /\ calls[p].err = "IntegrityError"
          /\ \E l \in calls[q].ret : l.slug = calls[p].slug
    /\ \E l \in Range(links) : l.deleted_at # {}


\* ------------------------------------------- claims on the dialogue handlers

\* A link that get_by_slug finds and that is active carries the slug
ActiveLinks(slug) ==
    {l \in Range(links) : l.slug = slug /\ l.deleted_at = {} /\ l.is_active}

\* C17: /start with the slug of an existing active link leaves the user in
\* await_reveal_choice with a payload holding the pending link slug and nothing
\* else, whatever state and payload the user had before.
C17_DeepLinkSetsRevealChoice ==
    [][\A u \in Users, slug \in Slugs :
          (start_handler(u, slug) /\ ActiveLinks(slug) # {})
          => get_state(u)' = [state |-> {"await_reveal_choice"},
                              data |-> [NoData EXCEPT !.pending_link_slug = {slug}]]]_vars

C17_Witness ==
    /\ last = Reply("start", last.user, "reveal_choice")
    /\ \E slug \in Slugs :
          dialog_states[last.user] =
              {[state |-> "await_reveal_choice",
                data |-> [NoData EXCEPT !.pending_link_slug = {slug}]]}
    /\ \E l \in Range(links) : l.id > 1

\* C18: /start with a slug that no link carries, or whose link is inactive,
\* answers with the invalid-link error and leaves every session state and
\* payload as it was, whatever state the user is in.
C18_BadDeepLinkKeepsSession ==
    [][\A u \in Users, slug \in Slugs :
          (start_handler(u, slug) /\ ActiveLinks(slug) = {})
          => /\ last' = Reply("start", u, "invalid_link")
             /\ \A v \in Users : get_state(v)' = get_state(v)]_vars

C18_Witness ==
    /\ last = Reply("start", last.user, "invalid_link")
    /\ \E row \in dialog_states[last.user] : row.data # NoData
    /\ \E l \in Range(links) : ~l.is_active \/ l.deleted_at # {}

\* C19: /start without a link slug leaves the user with no session state, from
\* any wizard state and from none, and creates no message, link or thread.
C19_PlainStartClearsSession ==
    [][\A u \in Users :
          start_handler(u, 0)
          => /\ get_state(u)' = [state |-> {}, data |-> NoData]
             /\ messages' = messages
             /\ links' = links
             /\ threads' = threads
             /\ thread_messages' = thread_messages]_vars

C19_Witness ==
    /\ last = Reply("start", last.user, "greeting_menu")
    /\ dialog_states[last.user] = {}
    /\ \E v \in Users : \E row \in dialog_states[v] : row.state = "await_link_prompt"
    /\ messages # <<>>

\* C20: a text of 1 to 2000 characters from a user in await_message_text whose
\* payload holds the slug of an active link and the reveal flag r appends exactly
\* one message (that text, is_reveal_allowed = r, sender the user, recipient the
\* link's owner), adds exactly one callback token, of type OPEN_MESSAGE and for
\* that message, and leaves the user with no session state.
C20_MessageTextSendsMessage ==
    [][\A u \in Users, text \in DlgTexts, slug \in Slugs, r \in BOOLEAN :
          (/\ text_message_handler(u, text)
           /\ TextLen(text) >= 1 /\ TextLen(text) <= MaxTextLen
           /\ \E row \in dialog_states[u] :
                 /\ row.state = "await_message_text"
                 /\ row.data.pending_link_slug = {slug}
                 /\ row.data.pending_reveal_allowed = {r}
           /\ ActiveLinks(slug) # {})
          => /\ Len(messages') = Len(messages) + 1
             /\ SubSeq(messages', 1, Len(messages)) = messages
             /\ LET msg == messages'[Len(messages')] IN
                /\ msg.text = text
                /\ msg.is_reveal_allowed = r
                /\ msg.sender_user_id = {u}
                /\ \E l \in ActiveLinks(slug) : msg.recipient_user_id = l.owner_user_id
                /\ \E tok \in callback_tokens' \ callback_tokens :
                      /\ callback_tokens' = callback_tokens \cup {tok}
                      /\ tok.type = "OPEN_MESSAGE"
                      /\ tok.entity_id = msg.id
             /\ get_state(u)' = [state |-> {}, data |-> NoData]]_vars

C20_Witness ==
    /\ last = Reply("text", last.user, "message_sent")
    /\ Len(messages) = 1
    /\ messages[1].sender_user_id = {last.user}
    /\ ~messages[1].is_reveal_allowed
    /\ \E tok \in callback_tokens : tok.type = "OPEN_MESSAGE" /\ tok.entity_id = 1
    /\ dialog_states[last.user] = {}


\* C21 (as claimed): a text of 1 to 2000 characters from a user in
\* await_reply_text whose payload holds the id of a stored root message appends
\* exactly one ThreadMessage for that root, from the user and with the text, and
\* leaves the user with no session state.
C21_ReplyTextAppendsReply ==
    [][\A u \in Users, text \in DlgTexts, mid \in DOMAIN messages :
          (/\ text_message_handler(u, text)
           /\ TextLen(text) >= 1 /\ TextLen(text) <= MaxTextLen
           /\ \E row \in dialog_states[u] :
                 /\ row.state = "await_reply_text"
                 /\ row.data.reply_to_message_id = {mid})
          => /\ Len(thread_messages') = Len(thread_messages) + 1
             /\ SubSeq(thread_messages', 1, Len(thread_messages)) = thread_messages
             /\ LET tm == thread_messages'[Len(thread_messages')] IN
                /\ tm.from_user_id = u
                /\ tm.text = text
                /\ \E t \in ThreadsOf(threads', mid) : tm.thread_id = t.id
             /\ get_state(u)' = [state |-> {}, data |-> NoData]]_vars


\* ------------------------------------------- claims on the callback buttons

\* C22: redeeming a token string that no row carries, or whose row has expired,
\* answers with the stale-button notice and does nothing else: no session is set
\* or cleared, no message, link or thread changes, and no token is issued.
C22_StaleTokenNoAction ==
    [][\A u \in Users, token_str \in TokenStrings :
          (/\ callback_query_handler(u, token_str)
           /\ \A tok \in callback_tokens :
                 tok.token = token_str => \E e \in tok.expires_at : e < now)
          => /\ last' = Reply("callback", u, "button_invalid")
             /\ dialog_states' = dialog_states
             /\ messages' = messages
             /\ links' = links
             /\ threads' = threads
             /\ thread_messages' = thread_messages
             /\ callback_tokens' \subseteq callback_tokens
             /\ token_id_seq' = token_id_seq]_vars

C22_Witness ==
    /\ last = Reply("callback", last.user, "button_invalid")
    /\ now > TtlDefault
    /\ token_id_seq = 2
    /\ Cardinality(callback_tokens) = 1
    /\ messages[1].status = "NEW"
    /\ \E tok \in callback_tokens : tok.id = 1


\* The row of a token string that consume_token hands out now
LiveToken(token_str) ==
    {tok \in callback_tokens :
        tok.token = token_str /\ \A e \in tok.expires_at : e >= now}

\* C23: when the recipient of a message redeems a valid OPEN_MESSAGE token for
\* it, the message becomes READ and the tokens issued are exactly one REPLY token
\* for the message and, if and only if the message allows revealing, one
\* REVEAL_AUTHOR token for it; no REVEAL_AUTHOR token in the store is ever for a
\* message that does not allow revealing.
C23_OpenMessageIssuesButtons ==
    /\ [](\A tok \in callback_tokens :
             tok.type = "REVEAL_AUTHOR"
             => \E m \in Range(messages) : m.id = tok.entity_id /\ m.is_reveal_allowed)
    /\ [][\A u \in Users, token_str \in TokenStrings, mid \in DOMAIN messages :
             (/\ callback_query_handler(u, token_str)
              /\ \E tok \in LiveToken(token_str) :
                    tok.type = "OPEN_MESSAGE" /\ tok.entity_id = mid
              /\ messages[mid].recipient_user_id = u)
             => LET new == callback_tokens' \ callback_tokens IN
                /\ messages'[mid].status = "READ"
                /\ Cardinality({tok \in new : tok.type = "REPLY"}) = 1
                /\ Cardinality({tok \in new : tok.type = "REVEAL_AUTHOR"}) =
                      IF messages[mid].is_reveal_allowed THEN 1 ELSE 0
                /\ \A tok \in new :
                      tok.type \in {"REPLY", "REVEAL_AUTHOR"} /\ tok.entity_id = mid]_vars

C23_Witness ==
    /\ last = Reply("callback", 1, "message_opened")
    /\ messages[1].status = "READ"
    /\ ~messages[1].is_reveal_allowed
    /\ \E tok \in callback_tokens : tok.type = "REPLY" /\ tok.entity_id = 1


\* C24: when a user who is not the recipient of a message redeems a valid
\* OPEN_MESSAGE token for it, the message is not marked READ and no token is
\* issued; when such a user redeems a valid REPLY token for it, that user's
\* session state and payload stay as they were.
C24_NonRecipientButtonsDoNothing ==
    [][\A u \in Users, token_str \in TokenStrings, mid \in DOMAIN messages :
          (/\ callback_query_handler(u, token_str)
           /\ messages[mid].recipient_user_id # u)
          => /\ (\E tok \in LiveToken(token_str) :
                    tok.type = "OPEN_MESSAGE" /\ tok.entity_id = mid)
                => /\ messages' = messages
                   /\ callback_tokens' \subseteq callback_tokens
                   /\ token_id_seq' = token_id_seq
             /\ (\E tok \in LiveToken(token_str) :
                    tok.type = "REPLY" /\ tok.entity_id = mid)
                => get_state(u)' = get_state(u)]_vars

C24_Witness ==
    /\ last = Reply("callback", 2, "message_unavailable")
    /\ messages[1].status = "READ"
    /\ token_id_seq >= 2
    /\ \A tok \in callback_tokens : tok.type # "REPLY"
    /\ dialog_states[2] # {}


Shown(u, offset, limit) ==
    LET inbox == {m \in Range(messages) : m.recipient_user_id = u}
        pos(m) == Cardinality({x \in inbox : x.created_at > m.created_at})
    IN {m.id : m \in {x \in inbox : pos(x) >= offset /\ pos(x) < offset + limit}}

\* This step renders u's message list at the offset with the page size: called
\* so, or through a live PAGINATE token that carries them
PageStep(u, offset, limit) ==
    \/ /\ last'.op = "messages" /\ last'.user = u
       /\ offset <= MaxPageMessages
       /\ PageRender(u, offset, limit)
    \/ /\ last'.op = "callback" /\ last'.user = u
       /\ \E token_str \in TokenStrings :
             /\ \E tok \in LiveToken(token_str) :
                   /\ tok.type = "PAGINATE"
                   /\ \E x \in tok.extra_data : x.offset = {offset} /\ x.limit = {limit}
             /\ callback_query_handler(u, token_str)

\* The tokens this step issues
NewTokens == callback_tokens' \ callback_tokens

\* The offsets a page can be asked at
PageOffsets == 0..(MaxPageMessages + MaxPageSize)

\* C26: a page of the message list rendered at offset o with page size L has one
\* OPEN_MESSAGE token for each message at positions o .. o+L-1 of the user's
\* list and for no other; it has a PAGINATE token for a later offset if and only
\* if it shows exactly L messages, and that token's offset is o+L.
C26_PageShowsSliceAndNext ==
    [][\A u \in Users, o \in PageOffsets, L \in 1..MaxPageSize :
          PageStep(u, o, L)
          => LET opens == {t \in NewTokens : t.type = "OPEN_MESSAGE"}
                 nexts == {t \in NewTokens :
                              /\ t.type = "PAGINATE"
                              /\ \E x \in t.extra_data : \E f \in x.offset : f > o}
             IN /\ {t.entity_id : t \in opens} = Shown(u, o, L)
                /\ Cardinality(opens) = Cardinality(Shown(u, o, L))
                /\ Cardinality(nexts) = IF Cardinality(Shown(u, o, L)) = L THEN 1 ELSE 0
                /\ \A t \in nexts : \E x \in t.extra_data :
                      x.offset = {o + L} /\ x.limit = {L}]_vars

C26_Witness ==
    /\ last = Reply("messages", 1, "messages_page")
    /\ Len(messages) = 2
    /\ \E t \in callback_tokens : t.type = "OPEN_MESSAGE" /\ t.entity_id = 2
    /\ \E t \in callback_tokens :
          /\ t.type = "PAGINATE"
          /\ \E x \in t.extra_data : x.offset = {1} /\ x.limit = {1}

\* C27 (as claimed): every page reached by redeeming a PAGINATE token with
\* offset o > 0 carries a PAGINATE token with offset max(0, o - L), also when it
\* holds fewer than L messages.
C27_EveryLaterPageHasPrevious ==
    [][\A u \in Users, o \in PageOffsets \ {0}, L \in 1..MaxPageSize :
          (\E token_str \in TokenStrings :
              /\ \E tok \in LiveToken(token_str) :
                    /\ tok.type = "PAGINATE"
                    /\ \E x \in tok.extra_data : x.offset = {o} /\ x.limit = {L}
              /\ callback_query_handler(u, token_str))
          => \E t \in NewTokens :
                /\ t.type = "PAGINATE"
                /\ \E x \in t.extra_data : x.offset = {IF o > L THEN o - L ELSE 0}]_vars

\* C27 (amended): a page rendered at offset o > 0 that shows at least one
\* message carries exactly one PAGINATE token for an earlier offset, namely
\* max(0, o - L), also when it shows fewer than L messages; a page at offset 0
\* carries none; a page that shows no message carries no token at all.
C27_NonEmptyLaterPageHasPrevious ==
    [][\A u \in Users, o \in PageOffsets, L \in 1..MaxPageSize :
          PageStep(u, o, L)
          => LET pages == {t \in NewTokens : t.type = "PAGINATE"}
                 prevs == {t \in pages :
                              \E x \in t.extra_data : x.offset # {o + L}}
             IN IF Shown(u, o, L) = {} THEN NewTokens = {}
                ELSE /\ Cardinality(prevs) = IF o > 0 THEN 1 ELSE 0
                     /\ \A t \in prevs : \E x \in t.extra_data :
                           /\ x.offset = {IF o > L THEN o - L ELSE 0}
                           /\ x.limit = {L}]_vars

C27_Witness ==
    /\ last = Reply("messages", 1, "messages_page")
    /\ Len(messages) = 2
    /\ \E t \in callback_tokens : t.type = "OPEN_MESSAGE" /\ t.entity_id = 1
    /\ \E t \in callback_tokens :
          /\ t.type = "PAGINATE"
          /\ \E x \in t.extra_data : x.offset = {0} /\ x.limit = {2}

\* ================================================ claims on concurrent turns
\* and on failures

\* The messages a user has sent
SentBy(u) == {i \in DOMAIN messages : messages[i].sender_user_id = {u}}

\* C28: two text turns of one user in await_message_text, handled
\* concurrently, do not interleave between the read of the session and its
\* clearing, so that together they create at most one Message. (In SpecTurn a
\* user's session is await_message_text once: no step sets a session.)
C28_TwoTurnsOneMessage ==
    \A u \in Users : Cardinality(SentBy(u)) <= 1

\* What a turn that ended with an uncaught exception leaves in `last`: nothing
\* was answered to the user
Raised == {"ValueError", "PermissionError", "AttributeError", "IntegrityError", "DBAPIError"}

C30_PushFailureKeepsPrimary ==
    [][\A p \in Procs :
          TurnNotify(p, FALSE)
          => LET m == TheOne(calls[p].message) IN
             /\ m.id \in DOMAIN messages' /\ messages'[m.id] = m
             /\ \E tok \in callback_tokens' :
                   tok.type = "OPEN_MESSAGE" /\ tok.entity_id = m.id
             /\ dialog_states'[calls[p].user] = {}
             /\ messages' = messages
             /\ callback_tokens' = callback_tokens
             /\ dialog_states' = dialog_states
             /\ calls'[p].pc = "idle"]_vars

\* A push has failed after user 2's message was stored
C30_Witness ==
    /\ last.op = "notify" /\ last.result = "push_failed_logged"
    /\ \E i \in DOMAIN messages :
          /\ messages[i].sender_user_id = {2}
          /\ \E tok \in callback_tokens :
                tok.type = "OPEN_MESSAGE" /\ tok.entity_id = messages[i].id
    /\ dialog_states[2] = {}

\* ================================================ claims on the dialogue,
\* second part

\* C31: in await_reveal_choice a text equal to one of the two choice labels
\* moves the user to await_message_text with a payload of the same pending
\* link slug and the reveal flag (true for the allow label, false for the deny
\* label), and any other text leaves the user's state and payload unchanged.
C31_RevealChoiceSetsFlag ==
    [][\A u \in Users, text \in TriedTexts :
          (/\ last'.op = "text" /\ last'.user = u
           /\ \E row \in dialog_states[u] : row.state = "await_reveal_choice"
           /\ text_message_handler(u, text))
          => LET row == TheOne(dialog_states[u]) IN
             IF text \in {REVEAL_ALLOW, REVEAL_DENY}
             THEN get_state(u)' =
                     [state |-> {"await_message_text"},
                      data |-> [NoData EXCEPT
                                  !.pending_link_slug = row.data.pending_link_slug,
                                  !.pending_reveal_allowed = {text = REVEAL_ALLOW}]]
             ELSE dialog_states'[u] = dialog_states[u]]_vars

\* The deny label has been taken from a user in await_reveal_choice, and
\* another text has been answered with the two choices again
C31_Witness ==
    /\ last = Reply("text", 2, "choose_one")
    /\ \E row \in dialog_states[2] : row.state = "await_reveal_choice"
    /\ \E row \in dialog_states[1] :
          /\ row.state = "await_message_text"
          /\ row.data.pending_link_slug = {1}
          /\ row.data.pending_reveal_allowed = {FALSE}

\* The text as typed
AsTyped(text) == text

\* The steps of the link wizard, Read(text) being what the wizard keeps of a
\* text: a redeemed LINK_CREATE token leaves the user in await_link_label; a
\* non-blank text there moves to await_link_prompt with the label as only
\* payload, a blank one changes no session; a text in
\* await_link_prompt appends exactly one active link of the user with the
\* label of the payload and the prompt kept of the text, none for the skip
\* sentinel, and leaves the user with no session state
WizardSteps(Read(_)) ==
    /\ \A u \in Users, token_str \in TokenStrings :
          (/\ last'.op = "callback" /\ last'.user = u
           /\ \E tok \in LiveToken(token_str) : tok.type = "LINK_CREATE"
           /\ callback_query_handler(u, token_str))
          => get_state(u)' = [state |-> {"await_link_label"}, data |-> NoData]
    /\ \A u \in Users, text \in WizardTexts :
          (/\ last'.op = "text" /\ last'.user = u
           /\ \E row \in dialog_states[u] : row.state = "await_link_label"
           /\ text_message_handler(u, text))
          => IF Strip(text) = ""
             THEN dialog_states' = dialog_states /\ links' = links
             ELSE /\ get_state(u)' = [state |-> {"await_link_prompt"},
                                      data |-> [NoData EXCEPT !.label = {Read(text)}]]
                  /\ links' = links
    /\ \A u \in Users, text \in WizardTexts :
          (/\ last'.op = "text" /\ last'.user = u
           /\ \E row \in dialog_states[u] : row.state = "await_link_prompt"
           /\ text_message_handler(u, text))
          => /\ Len(links') = Len(links) + 1
             /\ SubSeq(links', 1, Len(links)) = links
             /\ LET link == links'[Len(links')]
                    row == TheOne(dialog_states[u])
                IN /\ link.owner_user_id = u
                   /\ link.is_active /\ link.deleted_at = {}
                   /\ {link.label} = row.data.label
                   /\ link.prompt = IF Read(text) = SkipText THEN {} ELSE {Read(text)}
             /\ get_state(u)' = [state |-> {}, data |-> NoData]

C33_ReplyButtonSetsSession ==
    [][\A u \in Users, token_str \in TokenStrings, mid \in DOMAIN messages :
          (/\ last'.op = "callback" /\ last'.user = u
           /\ messages[mid].recipient_user_id = u
           /\ \E tok \in LiveToken(token_str) :
                 tok.type = "REPLY" /\ tok.entity_id = mid
           /\ callback_query_handler(u, token_str))
          => /\ get_state(u)' =
                   [state |-> {"await_reply_text"},
                    data |-> [NoData EXCEPT !.reply_to_message_id = {mid}]]
             /\ \A v \in Users \ {u} : dialog_states'[v] = dialog_states[v]
             /\ messages' = messages
             /\ threads' = threads
             /\ thread_messages' = thread_messages]_vars

\* The recipient has pressed the reply button of the message
C33_Witness ==
    /\ last = Reply("callback", 1, "enter_reply_text")
    /\ dialog_states[1] =
          {[state |-> "await_reply_text",
            data |-> [NoData EXCEPT !.reply_to_message_id = {1}]]}
    /\ messages[1].status = "READ"

\* ================================================ claims on the PAGINATE
\* payload and on the token types

C35_EveryTypeIssuesAndRedeems ==
    [][/\ \A type \in CallbackTokenType, entity_id \in TypesEntityIds,
             extra_data \in TypesExtras, ttl_seconds \in TriedTtls :
             TypesIssue(type, entity_id, extra_data, ttl_seconds)
             => \E tok \in callback_tokens' \ callback_tokens :
                   /\ tok.type = type
                   /\ tok.entity_id = entity_id
                   /\ tok.extra_data = extra_data
                   /\ tok.expires_at = {now + ttl_seconds}
       /\ \A token \in TokenStrings :
             TypesConsume(token)
             => \A tok \in LiveToken(token) :
                   /\ last'.message_id = tok.id
                   /\ tok \in issued]_vars

\* ================================================ claims on replies, status
\* and reveal

\* C36 (as claimed): the ThreadMessage appended by a ReplyToMessage call of the
\* root message's recipient or of its sender is addressed to the other party:
\* its to-user differs from its from-user.
C36_ReplyGoesToOtherParty ==
    [][\A p \in Procs :
          (/\ calls[p].pc = "reply_append" /\ calls'[p].pc = "reply_mark_read"
           /\ LET root == messages[calls[p].message_id] IN
              \/ calls[p].from_user_id = root.recipient_user_id
              \/ {calls[p].from_user_id} = root.sender_user_id)
          => LET tm == thread_messages'[Len(thread_messages')] IN
             /\ tm.from_user_id = calls[p].from_user_id
             /\ tm.to_user_id # tm.from_user_id]_vars

\* The place of a status in NEW, DELIVERED, READ
StatusRank(status) ==
    CASE status = "NEW" -> 0 [] status = "DELIVERED" -> 1 [] OTHER -> 2

C38_OnlyRecipientReveals ==
    [][\A u \in Users, token_str \in TokenStrings, mid \in DOMAIN messages :
          (/\ last'.op = "callback" /\ last'.user = u
           /\ messages[mid].recipient_user_id # u
           /\ \E tok \in LiveToken(token_str) :
                 tok.type = "REVEAL_AUTHOR" /\ tok.entity_id = mid
           /\ callback_query_handler(u, token_str))
          => /\ last'.result # "author_shown"
             /\ messages' = messages]_vars

\* The answers with which the dispatch turns the acting user away
Rejections == {"user_not_found", "message_unavailable", "link_not_found"}

\* C39: the token is deleted before any check on the acting user: when a live
\* token is redeemed and the dispatch rejects the action, no row of that string
\* is left in the store; and the redemption of a string that has no row, by
\* whichever user, is answered as stale and changes nothing in the store.
C39_RejectedTokenIsGone ==
    [][\A u \in Users, token_str \in TokenStrings :
          (/\ last'.op = "callback" /\ last'.user = u
           /\ callback_query_handler(u, token_str))
          => /\ (LiveToken(token_str) # {} /\ last'.result \in Rejections)
                  => \A tok \in callback_tokens' : tok.token # token_str
             /\ (\A tok \in callback_tokens : tok.token # token_str)
                  => /\ last'.result = "button_invalid"
                     /\ callback_tokens' = callback_tokens
                     /\ messages' = messages]_vars

\* A token was issued for a message that is still unread, no time has passed,
\* the store is empty again, and the recipient's press was answered as stale
C39_Witness ==
    /\ now = 0
    /\ token_id_seq >= 1
    /\ callback_tokens = {}
    /\ Len(messages) >= 1
    /\ messages[1].status = "NEW"
    /\ last = Reply("callback", messages[1].recipient_user_id, "button_invalid")

\* ----------------------- every way into a session: deep links, text turns
\* and buttons

\* The database when the bot starts, as in Init, and a tokens table that holds
\* the LINK_CREATE row render_links_list asks for (a database whose
\* callback_token_type has that label; the type the migration creates rejects
\* the insert). The other tokens are the ones the handlers issue.
TagsInit ==
    /\ now = 0
    /\ links \in SeedLinks
    /\ users = {l.owner_user_id : l \in Range(links)}
    /\ messages = <<>>
    /\ threads = <<>>
    /\ thread_messages = <<>>
    /\ dialog_states = [u \in Users |-> {}]
    /\ callback_tokens =
          {[id |-> 1, token |-> NumTokenStrings, type |-> "LINK_CREATE", entity_id |-> 0,
            extra_data |-> {NoExtra}, expires_at |-> ExpiresAt(0, TtlPaginate)]}
    /\ token_id_seq = 1
    /\ procs = [p \in Procs |-> IdleProc]
    /\ calls = [p \in Procs |-> IdleCall]
    /\ issued = {}
    /\ redeemed = {}
    /\ deleted = {}
    /\ last = NoLast

\* The texts typed: a reveal choice, an ordinary text and a blank one
TagsTexts == {REVEAL_DENY, "hello", BlankText}

TagsNext ==
    \/ \E u \in Users, arg \in {0} \cup Slugs : start_handler(u, arg)
    \/ \E u \in Users, text \in TagsTexts : text_message_handler(u, text)
    \/ \E u \in Users, token_str \in TokenStrings : callback_query_handler(u, token_str)

SpecTags == TagsInit /\ [][TagsNext]_vars

\* C40: the session of every user carries one of the five state tags, and its
\* payload holds what the handler of that state reads: the link slug in
\* await_reveal_choice, the slug and the reveal flag in await_message_text, the
\* root message id in await_reply_text, a label that is not empty in
\* await_link_prompt.
C40_SessionsWellFormed ==
    \A u \in Users : \A row \in dialog_states[u] :
        /\ row.state \in WizardStates
        /\ row.state = "await_reveal_choice" => row.data.pending_link_slug # {}
        /\ row.state = "await_message_text" =>
              row.data.pending_link_slug # {} /\ row.data.pending_reveal_allowed # {}
        /\ row.state = "await_reply_text" => row.data.reply_to_message_id # {}
        /\ row.state = "await_link_prompt" =>
              row.data.label # {} /\ "" \notin row.data.label

\* One user is about to type the reply to a message opened by button while the
\* other, having pressed the new-link button and typed a label, is asked for
\* the prompt
C40_Witness ==
    \E u, v \in Users :
        /\ \E row \in dialog_states[u] : row.state = "await_reply_text"
        /\ \E row \in dialog_states[v] : row.state = "await_link_prompt"

====
